---- MODULE Spec2Model ----
(***************************************************************************)
(* Model of saku-peq: the frequency-response engine                        *)
(* (src/core/frequencyResponse.js) and the calls made to it.               *)
(*                                                                         *)
(* JavaScript numbers are IEEE-754 binary64.  TLC has 32-bit integers, so  *)
(* a number is modelled as a binary floating-point value with the full     *)
(* binary64 exponent range but a mantissa of MantBits bits, rounded to     *)
(* nearest-even after every operation as the hardware does.  NaN and the   *)
(* infinities propagate as in IEEE-754; `undefined` is a value of its own. *)
(* Zero carries no sign and subnormals flush to zero.                      *)
(***************************************************************************)
EXTENDS Integers, Sequences, FiniteSets, TLC

\* ------------------------------------------------------------------------
\* Bounds of the model
\* ------------------------------------------------------------------------

\* of the 53 mantissa bits of a binary64 number, the model drops the last
\* DroppedBits and keeps MantBits
DroppedBits == 38
MantBits == 53 - DroppedBits

\* largest numPoints a call asks for
MaxPoints == 3

\* largest number of writes a caller makes to one object it got from getState
MaxWrites == 1

\* binary64 exponent range: largest finite < 2^1024, smallest positive 2^-1074
MaxExp == 1024
MinExp == 0 - 1074

\* binary32 (Float32Array element): of its 24 mantissa bits the model keeps
\* F32Bits; largest finite < 2^128, smallest positive 2^-149
F32DroppedBits == 14
F32Bits == 24 - F32DroppedBits
F32MaxExp == 128
F32MinExp == 0 - 149

\* ------------------------------------------------------------------------
\* Numbers
\*
\* Every intermediate value is passed on as an operator argument (TLC
\* evaluates an argument once), so each definition reads as one expression.
\* ------------------------------------------------------------------------

Pow2Tab == <<1, 2, 4, 8, 16, 32, 64, 128, 256, 512, 1024, 2048, 4096, 8192,
             16384, 32768, 65536, 131072, 262144, 524288, 1048576, 2097152,
             4194304, 8388608, 16777216, 33554432, 67108864, 134217728,
             268435456, 536870912, 1073741824>>

Pow2(n) == Pow2Tab[n + 1]

\* number of bits of n >= 0 (a binary search over the powers of two)
BitLen(n) ==
  (IF n < 32768 THEN (IF n < 128 THEN (IF n < 8 THEN (IF n < 2 THEN (IF n <
  1 THEN 0 ELSE 1) ELSE (IF n < 4 THEN 2 ELSE 3)) ELSE (IF n < 32 THEN (IF n
  < 16 THEN 4 ELSE 5) ELSE (IF n < 64 THEN 6 ELSE 7))) ELSE (IF n < 2048
  THEN (IF n < 512 THEN (IF n < 256 THEN 8 ELSE 9) ELSE (IF n < 1024 THEN 10
  ELSE 11)) ELSE (IF n < 8192 THEN (IF n < 4096 THEN 12 ELSE 13) ELSE (IF n
  < 16384 THEN 14 ELSE 15)))) ELSE (IF n < 8388608 THEN (IF n < 524288 THEN
  (IF n < 131072 THEN (IF n < 65536 THEN 16 ELSE 17) ELSE (IF n < 262144
  THEN 18 ELSE 19)) ELSE (IF n < 2097152 THEN (IF n < 1048576 THEN 20 ELSE
  21) ELSE (IF n < 4194304 THEN 22 ELSE 23))) ELSE (IF n < 134217728 THEN
  (IF n < 33554432 THEN (IF n < 16777216 THEN 24 ELSE 25) ELSE (IF n <
  67108864 THEN 26 ELSE 27)) ELSE (IF n < 536870912 THEN (IF n < 268435456
  THEN 28 ELSE 29) ELSE (IF n < 1073741824 THEN 30 ELSE 31)))))

NaN == [k |-> "nan", s |-> 1, m |-> 0, e |-> 0]
PosInf == [k |-> "inf", s |-> 1, m |-> 0, e |-> 0]
NegInf == [k |-> "inf", s |-> 0 - 1, m |-> 0, e |-> 0]
Undefined == [k |-> "undef", s |-> 1, m |-> 0, e |-> 0]
Zero == [k |-> "num", s |-> 1, m |-> 0, e |-> 0]

Inf(s) == IF s < 0 THEN NegInf ELSE PosInf

\* s * m * 2^e with m of `bits` bits: an infinity beyond the largest exponent,
\* zero below the smallest
InRange(s, m, e, bits, maxExp, minExp) ==
  IF e + bits > maxExp THEN Inf(s)
  ELSE IF e + bits - 1 < minExp THEN Zero
  ELSE [k |-> "num", s |-> s, m |-> m, e |-> e]

\* a mantissa that rounding carried to 2^bits is 2^(bits-1) one exponent up
Carried(s, m, e, bits, maxExp, minExp) ==
  IF m = Pow2(bits) THEN InRange(s, Pow2(bits - 1), e + 1, bits, maxExp, minExp)
  ELSE InRange(s, m, e, bits, maxExp, minExp)

\* q + r / (2 * half), rounded to the nearest integer, ties to even
Nearest(q, r, half, sticky) ==
  IF r > half \/ (r = half /\ (sticky \/ q % 2 = 1)) THEN q + 1 ELSE q

\* m has sh bits more than the mantissa holds (fewer, when sh is negative)
RoundBy(s, m, e, sticky, bits, maxExp, minExp, sh) ==
  IF sh <= 0 THEN InRange(s, m * Pow2(0 - sh), e + sh, bits, maxExp, minExp)
  ELSE Carried(s, Nearest(m \div Pow2(sh), m % Pow2(sh), Pow2(sh - 1), sticky),
               e + sh, bits, maxExp, minExp)

\* s * m * 2^e (plus a little, when sticky) rounded to `bits` mantissa bits,
\* nearest-even; overflow gives an infinity, underflow flushes to zero
Round(s, m, e, sticky, bits, maxExp, minExp) ==
  IF m = 0 THEN Zero
  ELSE RoundBy(s, m, e, sticky, bits, maxExp, minExp, BitLen(m) - bits)

Pack(s, m, e, sticky) == Round(s, m, e, sticky, MantBits, MaxExp, MinExp)

\* the signed integer n * 2^e as a number
PackSigned(n, e) == Pack(IF n < 0 THEN 0 - 1 ELSE 1, IF n < 0 THEN 0 - n ELSE n, e, FALSE)

FromInt(n) == PackSigned(n, 0)

IsNaNLike(x) == x.k = "nan" \/ x.k = "undef"
IsZero(x) == x.k = "num" /\ x.m = 0

\* Number.isFinite: false for NaN, the infinities and every non-number
IsFinite(x) == x.k = "num"

FNeg(x) == IF x.k = "num" /\ x.m = 0 THEN x ELSE [x EXCEPT !.s = 0 - x.s]

\* Math.abs
FAbs(x) == IF IsNaNLike(x) THEN NaN ELSE [x EXCEPT !.s = 1]

\* hi + lo for finite nonzero numbers, hi with the larger exponent
AddAligned(hi, lo) ==
  IF hi.e - lo.e > MantBits + 1 THEN hi
  ELSE PackSigned(hi.s * hi.m * Pow2(hi.e - lo.e) + lo.s * lo.m, lo.e)

FAdd(a, b) ==
  IF IsNaNLike(a) \/ IsNaNLike(b) THEN NaN
  ELSE IF a.k = "inf" THEN (IF b.k = "inf" /\ b.s # a.s THEN NaN ELSE a)
  ELSE IF b.k = "inf" THEN b
  ELSE IF a.m = 0 THEN b
  ELSE IF b.m = 0 THEN a
  ELSE IF a.e >= b.e THEN AddAligned(a, b)
  ELSE AddAligned(b, a)

FSub(a, b) == FAdd(a, FNeg(b))

FMul(a, b) ==
  IF IsNaNLike(a) \/ IsNaNLike(b) THEN NaN
  ELSE IF a.k = "inf" \/ b.k = "inf"
       THEN (IF IsZero(a) \/ IsZero(b) THEN NaN ELSE Inf(a.s * b.s))
  ELSE Pack(a.s * b.s, a.m * b.m, a.e + b.e, FALSE)

\* n / d for integers, scaled by 2^e
DivInt(s, n, d, e) == Pack(s, n \div d, e, n % d # 0)

FDiv(a, b) ==
  IF IsNaNLike(a) \/ IsNaNLike(b) THEN NaN
  ELSE IF a.k = "inf" THEN (IF b.k = "inf" THEN NaN ELSE Inf(a.s * b.s))
  ELSE IF b.k = "inf" THEN Zero
  ELSE IF b.m = 0 THEN (IF a.m = 0 THEN NaN ELSE Inf(a.s))
  ELSE DivInt(a.s * b.s, a.m * Pow2(MantBits + 1), b.m, a.e - b.e - (MantBits + 1))

\* the sign of x: -1, 0 or 1
Sign(x) == IF x.k = "num" /\ x.m = 0 THEN 0 ELSE x.s

\* -1, 0, 1 for |a| < |b|, |a| = |b|, |a| > |b| (neither is NaN)
CmpMag(a, b) ==
  IF a.k = "inf" THEN (IF b.k = "inf" THEN 0 ELSE 1)
  ELSE IF b.k = "inf" THEN 0 - 1
  ELSE IF a.m = 0 THEN (IF b.m = 0 THEN 0 ELSE 0 - 1)
  ELSE IF b.m = 0 THEN 1
  ELSE IF a.e # b.e THEN (IF a.e < b.e THEN 0 - 1 ELSE 1)
  ELSE IF a.m = b.m THEN 0
  ELSE IF a.m < b.m THEN 0 - 1 ELSE 1

\* -1, 0, 1 for a < b, a = b, a > b; 2 when unordered (a NaN is involved)
FCmp(a, b) ==
  IF IsNaNLike(a) \/ IsNaNLike(b) THEN 2
  ELSE IF Sign(a) # Sign(b) THEN (IF Sign(a) < Sign(b) THEN 0 - 1 ELSE 1)
  ELSE Sign(a) * CmpMag(a, b)

FLt(a, b) == FCmp(a, b) = 0 - 1
FLe(a, b) == FCmp(a, b) \in {0 - 1, 0}
FGt(a, b) == FCmp(a, b) = 1
FGe(a, b) == FCmp(a, b) \in {0, 1}

\* Math.max / Math.min: NaN when an argument converts to NaN
MathMax(a, b) == IF IsNaNLike(a) \/ IsNaNLike(b) THEN NaN ELSE IF FGe(a, b) THEN a ELSE b
MathMin(a, b) == IF IsNaNLike(a) \/ IsNaNLike(b) THEN NaN ELSE IF FLe(a, b) THEN a ELSE b

\* floor(sqrt(n)), one bit at a time
RECURSIVE ISqrtBits(_, _, _)
ISqrtBits(n, r, bit) ==
  IF bit = 0 THEN r
  ELSE ISqrtBits(n, IF (r + bit) * (r + bit) <= n THEN r + bit ELSE r, bit \div 2)

\* sqrt(n) * 2^e from r = floor(sqrt(n)), rounded to nearest
SqrtNearest(n, r, e) == Pack(1, IF n - r * r > r THEN r + 1 ELSE r, e, FALSE)

\* sqrt(m * 2^e) with e - sh even, so that m * 2^sh has 2 * MantBits bits or one less
SqrtShifted(m, e, sh) ==
  SqrtNearest(m * Pow2(sh), ISqrtBits(m * Pow2(sh), 0, Pow2(MantBits - 1)), (e - sh) \div 2)

\* Math.sqrt
FSqrt(x) ==
  IF IsNaNLike(x) THEN NaN
  ELSE IF x.k = "inf" THEN (IF x.s > 0 THEN PosInf ELSE NaN)
  ELSE IF x.m = 0 THEN Zero
  ELSE IF x.s < 0 THEN NaN
  ELSE SqrtShifted(x.m, x.e, IF (x.e - MantBits) % 2 = 0 THEN MantBits ELSE MantBits - 1)

FromRatio(n, d) == FDiv(FromInt(n), FromInt(d))

One == FromInt(1)
Two == FromInt(2)
Half == FromRatio(1, 2)

\* Math.PI and the conversion factors of the logarithms
PI == FromRatio(355, 113)
HALF_PI == FromRatio(355, 226)
LN2 == FromRatio(4319, 6231)
LOG2_10 == FromRatio(2136, 643)
LOG10_2 == FromRatio(643, 2136)
LOG10_E == FromRatio(1702, 3919)
SQRT2 == FromRatio(8119, 5741)

\* the integer floor(x) of a finite x of moderate size (|x| < 2^30)
FloorInt(x) ==
  IF x.m = 0 THEN 0
  ELSE IF x.e >= 0 THEN x.s * x.m * Pow2(x.e)
  ELSE IF 0 - x.e > 30 THEN (IF x.s < 0 THEN 0 - 1 ELSE 0)
  ELSE (x.s * x.m) \div Pow2(0 - x.e)

\* the integer nearest to a finite x of moderate size
RoundInt(x) == FloorInt(FAdd(x, Half))

\* x is finite and small enough for FloorInt
Moderate(x) == x.k = "num" /\ (x.m = 0 \/ x.e + MantBits <= 28)

\* sin r and cos r for |r| <= pi/4, by their Taylor polynomials in r2 = r * r
SinSeries(r, r2) ==
  FMul(r, FSub(One, FMul(FDiv(r2, FromInt(6)),
                FSub(One, FMul(FDiv(r2, FromInt(20)),
                       FSub(One, FDiv(r2, FromInt(42))))))))

CosSeries(r2) ==
  FSub(One, FMul(FDiv(r2, Two),
         FSub(One, FMul(FDiv(r2, FromInt(12)),
                FSub(One, FMul(FDiv(r2, FromInt(30)),
                       FSub(One, FDiv(r2, FromInt(56)))))))))

\* sin and cos of q * pi/2 + r from the series at r
SinAt(q, sinr, cosr) ==
  CASE q = 0 -> sinr [] q = 1 -> cosr [] q = 2 -> FNeg(sinr) [] OTHER -> FNeg(cosr)

CosAt(q, sinr, cosr) ==
  CASE q = 0 -> cosr [] q = 1 -> FNeg(sinr) [] q = 2 -> FNeg(cosr) [] OTHER -> sinr

SinReduced(q, r) == SinAt(q, SinSeries(r, FMul(r, r)), CosSeries(FMul(r, r)))
CosReduced(q, r) == CosAt(q, SinSeries(r, FMul(r, r)), CosSeries(FMul(r, r)))

\* x = q * pi/2 + r with |r| <= pi/4
SinQuarter(x, q) == SinReduced(q % 4, FSub(x, FMul(FromInt(q), HALF_PI)))
CosQuarter(x, q) == CosReduced(q % 4, FSub(x, FMul(FromInt(q), HALF_PI)))

\* Math.sin (an argument of more than 2^28 loses every mantissa bit to the
\* range reduction and is taken as a multiple of 2 pi)
MathSin(x) ==
  IF x.k # "num" THEN NaN
  ELSE IF x.m = 0 \/ ~Moderate(x) THEN Zero
  ELSE SinQuarter(x, RoundInt(FDiv(x, HALF_PI)))

\* Math.cos
MathCos(x) ==
  IF x.k # "num" THEN NaN
  ELSE IF x.m = 0 \/ ~Moderate(x) THEN One
  ELSE CosQuarter(x, RoundInt(FDiv(x, HALF_PI)))

\* e^u for |u| <= 1/2, by its Taylor polynomial
ExpSeries(u) ==
  FAdd(One, FMul(u,
    FAdd(One, FMul(FDiv(u, Two),
      FAdd(One, FMul(FDiv(u, FromInt(3)),
        FAdd(One, FMul(FDiv(u, FromInt(4)),
          FAdd(One, FMul(FDiv(u, FromInt(5)),
            FAdd(One, FDiv(u, FromInt(6)))))))))))))

\* p * 2^n
Scale2(p, n) == Pack(p.s, p.m, p.e + n, FALSE)

\* 2^t = 2^n * e^((t - n) ln 2) for the integer n nearest to t
Exp2(t, n) == Scale2(ExpSeries(FMul(FSub(t, FromInt(n)), LN2)), n)

\* 2^t, beyond the exponent range an infinity or zero
Exp2Ranged(t) ==
  IF t.k = "inf" \/ FGt(t, FromInt(MaxExp + 1)) THEN (IF t.s > 0 THEN PosInf ELSE Zero)
  ELSE IF FLt(t, FromInt(MinExp - 2)) THEN Zero
  ELSE Exp2(t, RoundInt(t))

\* Math.pow(10, y) = 2^(y * log2 10)
Pow10(y) ==
  IF IsNaNLike(y) THEN NaN
  ELSE IF y.k = "inf" THEN (IF y.s > 0 THEN PosInf ELSE Zero)
  ELSE IF y.m = 0 THEN One
  ELSE Exp2Ranged(FMul(y, LOG2_10))

\* ln y = 2 atanh z for z = (y - 1) / (y + 1), by its series in z2 = z * z
LnSeries(z, z2) ==
  FMul(FMul(Two, z),
       FAdd(One, FMul(z2, FAdd(FromRatio(1, 3),
                            FMul(z2, FAdd(FromRatio(1, 5), FDiv(z2, FromInt(7))))))))

LnAtanh(z) == LnSeries(z, FMul(z, z))

\* log10(y * 2^ex) for y between sqrt(1/2) and sqrt(2)
Log10Parts(ex, y) ==
  FAdd(FMul(FromInt(ex), LOG10_2),
       FMul(LnAtanh(FDiv(FSub(y, One), FAdd(y, One))), LOG10_E))

\* log10(m * 2^e): the mantissa is taken as a number y1 between 1 and 2, and
\* halved when it is above sqrt(2)
Log10Mantissa(e, y1) ==
  IF FGt(y1, SQRT2) THEN Log10Parts(e + MantBits, [y1 EXCEPT !.e = 0 - MantBits])
  ELSE Log10Parts(e + MantBits - 1, y1)

\* Math.log10
Log10(x) ==
  IF IsNaNLike(x) THEN NaN
  ELSE IF x.k = "inf" THEN (IF x.s > 0 THEN PosInf ELSE NaN)
  ELSE IF x.m = 0 THEN NegInf
  ELSE IF x.s < 0 THEN NaN
  ELSE Log10Mantissa(x.e, [k |-> "num", s |-> 1, m |-> x.m, e |-> 1 - MantBits])

\* the value a Float32Array element holds after a number is stored in it
Fround(x) ==
  IF x.k = "undef" THEN NaN
  ELSE IF x.k # "num" THEN x
  ELSE Round(x.s, x.m, x.e, FALSE, F32Bits, F32MaxExp, F32MinExp)

\* ------------------------------------------------------------------------
\* src/core/frequencyResponse.js
\* ------------------------------------------------------------------------

DEFAULT_SAMPLE_RATE == 48000
MIN_GAIN_DB == 0 - 48
MAX_GAIN_DB == 48
GAIN_EPSILON == FromRatio(1, 1000)
MIN_Q == FromRatio(1, 1000000)
MIN_SLOPE == FromRatio(1, 1000000)

\* Number.EPSILON: the gap between 1 and the next number
NUMBER_EPSILON == Pack(1, 1, 1 - MantBits, FALSE)

\* the factor 0.999999 that keeps the evaluation frequency below Nyquist: the
\* mantissa cannot hold 1 - 10^-6, so the factor is the largest number below 1
\* (rounding it to 1 would lose what the factor is for)
NYQUIST_FACTOR == Pack(1, Pow2(MantBits) - 1, 0 - MantBits, FALSE)

\* a ?? b
Nullish(a, b) == IF a.k = "undef" THEN b ELSE a

\* the null that normalizeCoefficients returns
NoCoefficients ==
  [ok |-> FALSE, b0 |-> Zero, b1 |-> Zero, b2 |-> Zero, a1 |-> Zero, a2 |-> Zero]

\* the object normalizeCoefficients returns
scaledCoefficients(b0, b1, b2, a1, a2, invA0) ==
  [ok |-> TRUE,
   b0 |-> FMul(b0, invA0),
   b1 |-> FMul(b1, invA0),
   b2 |-> FMul(b2, invA0),
   a1 |-> FMul(a1, invA0),
   a2 |-> FMul(a2, invA0)]

normalizeCoefficients(b0, b1, b2, a0, a1, a2) ==
  IF ~IsFinite(a0) \/ FLt(FAbs(a0), NUMBER_EPSILON) THEN NoCoefficients
  ELSE scaledCoefficients(b0, b1, b2, a1, a2, FDiv(One, a0))

\* real * real + imag * imag
magSquared(real, imag) == FAdd(FMul(real, real), FMul(imag, imag))

\* the conversion to dB as it would be without the test of the magnitude
magnitudeToDbUnchecked(magnitude) == FMul(FromInt(20), Log10(magnitude))

\* 20 * Math.log10(magnitude), 0 for a magnitude that is not finite or not positive
magnitudeToDb(magnitude) ==
  IF ~IsFinite(magnitude) \/ FLe(magnitude, Zero) THEN Zero
  ELSE FMul(FromInt(20), Log10(magnitude))

\* the magnitude in dB of the ratio of the two squared magnitudes
ratioToDb(numMagSquared, denMagSquared) ==
  IF ~IsFinite(numMagSquared) \/ ~IsFinite(denMagSquared) \/ IsZero(denMagSquared)
  THEN Zero
  ELSE magnitudeToDb(FSqrt(FDiv(numMagSquared, denMagSquared)))

\* the response of the coefficients at the point whose cosines and sines are given
magnitudeAt(c, cosw, sinw, cos2w, sin2w) ==
  ratioToDb(
    magSquared(FAdd(FAdd(c.b0, FMul(c.b1, cosw)), FMul(c.b2, cos2w)),
               FAdd(FMul(c.b1, FNeg(sinw)), FMul(c.b2, FNeg(sin2w)))),
    magSquared(FAdd(FAdd(One, FMul(c.a1, cosw)), FMul(c.a2, cos2w)),
               FAdd(FMul(c.a1, FNeg(sinw)), FMul(c.a2, FNeg(sin2w)))))

biquadMagnitudeDb(coefficients, w) ==
  IF ~coefficients.ok THEN Zero
  ELSE magnitudeAt(coefficients, MathCos(w), MathSin(w),
                   MathCos(FMul(Two, w)), MathSin(FMul(Two, w)))

\* clampDb as it would be without the clamp to MIN_GAIN_DB..MAX_GAIN_DB
clampDbUnclamped(value) == IF ~IsFinite(value) THEN Zero ELSE value

clampDb(value) ==
  IF ~IsFinite(value) THEN Zero
  ELSE MathMax(FromInt(MIN_GAIN_DB), MathMin(FromInt(MAX_GAIN_DB), value))

\* band.type || 'peaking'
bandType(band) == IF band.type = "" THEN "peaking" ELSE band.type

\* Number.isFinite(band.gain) ? band.gain : 0
bandGain(band) == IF IsFinite(band.gain) THEN band.gain ELSE Zero

\* Math.max(Number.isFinite(band.Q) ? band.Q : 1, MIN_Q)
bandQ(band) == MathMax(IF IsFinite(band.Q) THEN band.Q ELSE One, MIN_Q)

\* Math.max(band.S ?? band.s ?? qValue, MIN_SLOPE)
bandSlope(band) == MathMax(Nullish(band.S, bandQ(band)), MIN_SLOPE)

\* options.sampleRate ?? band.sampleRate ?? DEFAULT_SAMPLE_RATE
resolveSampleRate(band, options) ==
  Nullish(options.sampleRate, Nullish(band.sampleRate, FromInt(DEFAULT_SAMPLE_RATE)))

KnownTypes == {"peaking", "lowshelf", "highshelf", "lowpass", "highpass"}

\* case 'peaking' as it would be if a0 and a2 took alpha * A as b0 and b2 do
peakingCoefficientsSameAlpha(A, alpha, cosw0) ==
  normalizeCoefficients(
    FAdd(One, FMul(alpha, A)),
    FMul(FromInt(0 - 2), cosw0),
    FSub(One, FMul(alpha, A)),
    FAdd(One, FMul(alpha, A)),
    FMul(FromInt(0 - 2), cosw0),
    FSub(One, FMul(alpha, A)))

\* case 'peaking'
peakingCoefficients(A, alpha, cosw0) ==
  normalizeCoefficients(
    FAdd(One, FMul(alpha, A)),
    FMul(FromInt(0 - 2), cosw0),
    FSub(One, FMul(alpha, A)),
    FAdd(One, FDiv(alpha, A)),
    FMul(FromInt(0 - 2), cosw0),
    FSub(One, FDiv(alpha, A)))

\* case 'lowshelf'
lowshelfCoefficients(A, beta, cosw0) ==
  normalizeCoefficients(
    FMul(A, FAdd(FSub(FAdd(A, One), FMul(FSub(A, One), cosw0)), beta)),
    FMul(FMul(Two, A), FSub(FSub(A, One), FMul(FAdd(A, One), cosw0))),
    FMul(A, FSub(FSub(FAdd(A, One), FMul(FSub(A, One), cosw0)), beta)),
    FAdd(FAdd(FAdd(A, One), FMul(FSub(A, One), cosw0)), beta),
    FMul(FromInt(0 - 2), FAdd(FSub(A, One), FMul(FAdd(A, One), cosw0))),
    FSub(FAdd(FAdd(A, One), FMul(FSub(A, One), cosw0)), beta))

\* case 'highshelf'
highshelfCoefficients(A, beta, cosw0) ==
  normalizeCoefficients(
    FMul(A, FAdd(FAdd(FAdd(A, One), FMul(FSub(A, One), cosw0)), beta)),
    FMul(FMul(FromInt(0 - 2), A), FAdd(FSub(A, One), FMul(FAdd(A, One), cosw0))),
    FMul(A, FSub(FAdd(FAdd(A, One), FMul(FSub(A, One), cosw0)), beta)),
    FAdd(FSub(FAdd(A, One), FMul(FSub(A, One), cosw0)), beta),
    FMul(Two, FSub(FSub(A, One), FMul(FAdd(A, One), cosw0))),
    FSub(FSub(FAdd(A, One), FMul(FSub(A, One), cosw0)), beta))

\* case 'lowpass'
lowpassCoefficients(alpha, cosw0) ==
  normalizeCoefficients(
    FDiv(FSub(One, cosw0), Two),
    FSub(One, cosw0),
    FDiv(FSub(One, cosw0), Two),
    FAdd(One, alpha),
    FMul(FromInt(0 - 2), cosw0),
    FSub(One, alpha))

\* case 'highpass'
highpassCoefficients(alpha, cosw0) ==
  normalizeCoefficients(
    FDiv(FAdd(One, cosw0), Two),
    FNeg(FAdd(One, cosw0)),
    FDiv(FAdd(One, cosw0), Two),
    FAdd(One, alpha),
    FMul(FromInt(0 - 2), cosw0),
    FSub(One, alpha))

\* alphaTerm = Math.max(0, (A + 1 / A) * (1 / slope - 1) + 2)
shelfAlphaTerm(A, slope) ==
  MathMax(Zero, FAdd(FMul(FAdd(A, FDiv(One, A)), FSub(FDiv(One, slope), One)), Two))

\* beta = 2 * Math.sqrt(A) * alpha for alpha = (sinw0 / 2) * Math.sqrt(alphaTerm)
shelfBeta(A, slope, sinw0) ==
  FMul(FMul(Two, FSqrt(A)), FMul(FDiv(sinw0, Two), FSqrt(shelfAlphaTerm(A, slope))))

\* the two shelf cases, which share A and beta
shelfCoefficients(type, A, slope, cosw0, sinw0) ==
  IF type = "lowshelf" THEN lowshelfCoefficients(A, shelfBeta(A, slope, sinw0), cosw0)
  ELSE highshelfCoefficients(A, shelfBeta(A, slope, sinw0), cosw0)

\* the switch over the known types: the normalized coefficients, or null
designCoefficients(type, gain, qValue, slope, cosw0, sinw0) ==
  CASE type = "peaking" ->
         peakingCoefficients(Pow10(FDiv(gain, FromInt(40))),
                             FDiv(sinw0, FMul(Two, qValue)), cosw0)
    [] type \in {"lowshelf", "highshelf"} ->
         shelfCoefficients(type, Pow10(FDiv(gain, FromInt(40))), slope, cosw0, sinw0)
    [] type = "lowpass" -> lowpassCoefficients(FDiv(sinw0, FMul(Two, qValue)), cosw0)
    [] type = "highpass" -> highpassCoefficients(FDiv(sinw0, FMul(Two, qValue)), cosw0)

\* (2 * Math.PI * freq) / sampleRate
angularFrequency(freq, sampleRate) == FDiv(FMul(FMul(Two, PI), freq), sampleRate)

\* targetFreq as it would be without the Math.min against Nyquist
targetFrequencyUnclamped(frequency, sampleRate) == MathMax(frequency, Zero)

\* Math.min(Math.max(frequency, 0), nyquist * 0.999999)
targetFrequency(frequency, sampleRate) ==
  MathMin(MathMax(frequency, Zero), FMul(FDiv(sampleRate, Two), NYQUIST_FACTOR))

\* the test as it would be without `|| x <= 0`
notPositiveFiniteUnsigned(x) == ~IsFinite(x)

\* !Number.isFinite(x) || x <= 0: the test of centerFreq, frequency, sampleRate
notPositiveFinite(x) == ~IsFinite(x) \/ FLe(x, Zero)

\* the no-op test as it would be if it named a single type: peaking only, or
\* lowshelf only
isNoOpGainPeakingOnly(band) ==
  FLt(FAbs(bandGain(band)), GAIN_EPSILON) /\ bandType(band) = "peaking"

isNoOpGainLowshelfOnly(band) ==
  FLt(FAbs(bandGain(band)), GAIN_EPSILON) /\ bandType(band) = "lowshelf"

\* the no-op test as it would be if it named no type at all
isNoOpGainAnyType(band) == FLt(FAbs(bandGain(band)), GAIN_EPSILON)

\* Math.abs(gain) < GAIN_EPSILON && (type is peaking, lowshelf or highshelf)
isNoOpGain(band) ==
  FLt(FAbs(bandGain(band)), GAIN_EPSILON)
    /\ bandType(band) \in {"peaking", "lowshelf", "highshelf"}

\* the switch as it would be if an unrecognised type fell into case 'peaking'
switchCasePeakingDefault(type) == IF type \in KnownTypes THEN type ELSE "peaking"

\* the case of the switch a type selects
switchCase(type) == IF type \in KnownTypes THEN type ELSE "default"

\* the coefficients at w0, the angular frequency of the band's center
coefficientsAt(type, band, w0) ==
  designCoefficients(type, bandGain(band), bandQ(band), bandSlope(band),
                     MathCos(w0), MathSin(w0))

\* the coefficients of a band of a known type at a valid sample rate
bandCoefficients(band, sampleRate) ==
  coefficientsAt(switchCase(bandType(band)), band,
                 angularFrequency(band.frequency, sampleRate))

\* the end of calculateBandResponse: null coefficients give 0
coefficientsResponse(coefficients, frequency, sampleRate) ==
  IF ~coefficients.ok THEN Zero
  ELSE biquadMagnitudeDb(coefficients,
         angularFrequency(targetFrequency(frequency, sampleRate), sampleRate))

calculateBandResponse(frequency, band, options) ==
  IF ~band.present THEN Zero
  ELSE IF notPositiveFinite(band.frequency) THEN Zero
  ELSE IF notPositiveFinite(frequency) THEN Zero
  ELSE IF isNoOpGain(band) THEN Zero
  ELSE IF notPositiveFinite(resolveSampleRate(band, options)) THEN Zero
  ELSE IF switchCase(bandType(band)) = "default" THEN Zero
  ELSE coefficientsResponse(bandCoefficients(band, resolveSampleRate(band, options)),
                            frequency, resolveSampleRate(band, options))

\* a preset where none is passed or returned
Absent ==
  [object |-> FALSE, name |-> "", description |-> "", preamp |-> Undefined,
   isArray |-> FALSE, bands |-> <<>>]

\* the outcome of a call: it threw, or it returned a number, or the two arrays
\* (a call of the preset layer returns a preset or a text)
Threw(error) ==
  [threw |-> TRUE, error |-> error, value |-> Zero, frequencies |-> <<>>,
   magnitudeDb |-> <<>>, preset |-> Absent, text |-> <<>>]

Returned(v, fs, ms) ==
  [threw |-> FALSE, error |-> "none", value |-> v, frequencies |-> fs,
   magnitudeDb |-> ms, preset |-> Absent, text |-> <<>>]

\* the grid point as it would be with i / numPoints for i / (numPoints - 1)
generatedPointShort(i, numPoints, logMin, logMax) ==
  Fround(Pow10(FAdd(logMin,
                    FMul(FDiv(FromInt(i), FromInt(numPoints)), FSub(logMax, logMin)))))

\* generateFrequencies: frequencies[i] = Math.pow(10, logMin + (i / (numPoints - 1))
\* * (logMax - logMin)), stored in a Float32Array (i counts from 0)
generatedPoint(i, numPoints, logMin, logMax) ==
  Fround(Pow10(FAdd(logMin,
                    FMul(FDiv(FromInt(i), FromInt(numPoints - 1)), FSub(logMax, logMin)))))

\* new Float32Array(numPoints) throws a RangeError for a negative length; the
\* span is the function's own, whatever else the caller passes
generateFrequencies(numPoints) ==
  IF numPoints < 0 THEN Threw("RangeError")
  ELSE Returned(Zero,
         [i \in 1..numPoints |->
            generatedPoint(i - 1, numPoints, Log10(FromInt(20)), Log10(FromInt(20000)))],
         <<>>)

\* totalGain += bandResponse, when the response is finite
addFinite(totalGain, bandResponse) ==
  IF IsFinite(bandResponse) THEN FAdd(totalGain, bandResponse) ELSE totalGain

\* bands.forEach as it would be if a null band ended the loop
RECURSIVE sumBandsUntilNull(_, _, _, _, _)
sumBandsUntilNull(bands, k, freq, sampleRate, totalGain) ==
  IF k > Len(bands) THEN totalGain
  ELSE IF ~bands[k].present THEN totalGain
  ELSE sumBandsUntilNull(bands, k + 1, freq, sampleRate,
         addFinite(totalGain,
                   calculateBandResponse(freq, bands[k], [sampleRate |-> sampleRate])))

\* bands.forEach: the sum of the finite responses of the bands that are present
RECURSIVE sumBands(_, _, _, _, _)
sumBands(bands, k, freq, sampleRate, totalGain) ==
  IF k > Len(bands) THEN totalGain
  ELSE IF ~bands[k].present THEN sumBands(bands, k + 1, freq, sampleRate, totalGain)
  ELSE sumBands(bands, k + 1, freq, sampleRate,
         addFinite(totalGain,
                   calculateBandResponse(freq, bands[k], [sampleRate |-> sampleRate])))

\* a destructuring default: the default replaces undefined only
OrDefault(x, d) == IF x.k = "undef" THEN d ELSE x

\* calculateFrequencyResponse: the same grid formula on the caller's span
responsePoint(i, numPoints, logMin, logMax) ==
  Fround(Pow10(FAdd(logMin,
                    FMul(FDiv(FromInt(i), FromInt(numPoints - 1)), FSub(logMax, logMin)))))

\* the first loop as it would be if it stopped one point early: the last
\* element of the Float32Array keeps its initial 0
responseGridOneShort(numPoints, logMin, logMax) ==
  [i \in 1..numPoints |->
     IF i = numPoints THEN Zero ELSE responsePoint(i - 1, numPoints, logMin, logMax)]

\* the first loop of calculateFrequencyResponse
responseGrid(numPoints, logMin, logMax) ==
  [i \in 1..numPoints |-> responsePoint(i - 1, numPoints, logMin, logMax)]

\* the second loop of calculateFrequencyResponse, and its result
responseOver(bands, frequencies, sampleRate) ==
  Returned(Zero, frequencies,
    [i \in 1..Len(frequencies) |->
       clampDb(sumBands(bands, 1, frequencies[i], sampleRate, Zero))])

calculateFrequencyResponse(bands, options) ==
  IF options.numPoints < 0 THEN Threw("RangeError")
  ELSE responseOver(bands,
         responseGrid(options.numPoints,
                      Log10(OrDefault(options.minFreq, FromInt(20))),
                      Log10(OrDefault(options.maxFreq, FromInt(20000)))),
         OrDefault(options.sampleRate, FromInt(DEFAULT_SAMPLE_RATE)))

\* the wrapper as it would be if it passed no options on
calculateProcessorResponseNoOptions(peqState, options) ==
  IF ~peqState.present \/ ~peqState.hasBands THEN Threw("Error")
  ELSE calculateFrequencyResponse(peqState.bands,
         [numPoints |-> options.numPoints, minFreq |-> Undefined,
          maxFreq |-> Undefined, sampleRate |-> Undefined])

calculateProcessorResponse(peqState, options) ==
  IF ~peqState.present \/ ~peqState.hasBands THEN Threw("Error")
  ELSE calculateFrequencyResponse(peqState.bands, options)

\* bands.forEach of getResponseAtFrequencies: its own copy of the sum
RECURSIVE sumBandsAt(_, _, _, _, _)
sumBandsAt(bands, k, freq, sampleRate, totalGain) ==
  IF k > Len(bands) THEN totalGain
  ELSE IF ~bands[k].present THEN sumBandsAt(bands, k + 1, freq, sampleRate, totalGain)
  ELSE sumBandsAt(bands, k + 1, freq, sampleRate,
         addFinite(totalGain,
                   calculateBandResponse(freq, bands[k], [sampleRate |-> sampleRate])))

\* targetFrequencies.map as it would be if it returned the sum unclamped
responsesAtUnclamped(bands, targetFrequencies, sampleRate) ==
  [i \in 1..Len(targetFrequencies) |->
     sumBandsAt(bands, 1, targetFrequencies[i], sampleRate, Zero)]

\* targetFrequencies.map
responsesAt(bands, targetFrequencies, sampleRate) ==
  [i \in 1..Len(targetFrequencies) |->
     clampDb(sumBandsAt(bands, 1, targetFrequencies[i], sampleRate, Zero))]

getResponseAtFrequencies(bands, targetFrequencies, options) ==
  Returned(Zero, <<>>,
    responsesAt(bands, targetFrequencies,
                Nullish(options.sampleRate, FromInt(DEFAULT_SAMPLE_RATE))))

\* ------------------------------------------------------------------------
\* Callers: the arguments the functions are called with
\* ------------------------------------------------------------------------

\* a band record has no index key unless updateBands merged one into it
NoIndex == 0 - 1

Band(type, frequency, gain, Q) ==
  [present |-> TRUE, type |-> type, frequency |-> frequency, gain |-> gain, Q |-> Q,
   S |-> Undefined, sampleRate |-> Undefined, index |-> NoIndex]

\* a null or undefined entry of a bands array
NullBand ==
  [present |-> FALSE, type |-> "", frequency |-> Undefined, gain |-> Undefined,
   Q |-> Undefined, S |-> Undefined, sampleRate |-> Undefined, index |-> NoIndex]

\* "" is a band record without a type; "notch" passes validatePreset
TypePool == {"peaking", "lowshelf", "highshelf", "lowpass", "highpass", "notch", ""}

\* values that are no positive finite number
BadNumbers == {Zero, FromInt(0 - 100), NaN, PosInf, Undefined}

\* gains below the epsilon, ordinary gains, gains beyond the clamp, and gains
\* whose A = 10^(gain/40) underflows to 0 or overflows to Infinity
SmallGains == {Zero, FromRatio(9, 10000), FromRatio(0 - 9, 10000)}
OrdinaryGains == {FromInt(6), FromInt(0 - 6), FromInt(60)}
ExtremeGains == {FromInt(0 - 13000), FromInt(40000)}

SQRT1_2 == FDiv(One, SQRT2)

\* bands whose response takes the whole computation
DesignBands ==
  { Band(t, FromInt(cf), g, q) :
      t \in TypePool, cf \in {1000, 18000}, g \in OrdinaryGains \cup ExtremeGains,
      q \in {One, Half} }

\* bands that one of the guards answers
GuardBands ==
  { Band(t, cf, g, q) :
      t \in TypePool, cf \in {FromInt(1000)} \cup BadNumbers,
      g \in SmallGains \cup {FromInt(6), Undefined}, q \in {One, Zero, Undefined} }

\* bands that carry a slope or a sample rate of their own
OwnRateBands ==
  { [Band(t, FromInt(1000), FromInt(6), SQRT1_2) EXCEPT !.S = sl, !.sampleRate = sr] :
      t \in {"peaking", "lowshelf", "highshelf"},
      sl \in {Undefined, Two, PosInf, NaN}, sr \in {Undefined, FromInt(24000), Zero} }

EvalFrequencies == {FromInt(20), FromInt(1000), FromInt(18000), FromInt(24000), FromInt(30000)}
SampleRateOptions == {Undefined, FromInt(48000), FromInt(24000)}

\* BAND_LAYOUT with every gain 0: the bands of DEFAULT_PRESET
FlatBands ==
  <<Band("lowshelf", FromInt(60), Zero, SQRT1_2),
    Band("peaking", FromInt(150), Zero, One),
    Band("peaking", FromInt(400), Zero, One),
    Band("peaking", FromInt(1000), Zero, One),
    Band("peaking", FromInt(2400), Zero, One),
    Band("peaking", FromInt(4800), Zero, One),
    Band("peaking", FromInt(9600), Zero, One),
    Band("peaking", FromInt(12000), Zero, One),
    Band("peaking", FromInt(14000), Zero, One),
    Band("highshelf", FromInt(16000), Zero, SQRT1_2)>>

\* ten bands of gain 0, the first of them a highpass
FlatBandsHighpass == [FlatBands EXCEPT ![1] = Band("highpass", FromInt(60), Zero, SQRT1_2)]

\* ten bands of gain 0, one of them without a usable Q
FlatBandsNoQ == [FlatBands EXCEPT ![4] = Band("peaking", FromInt(1000), Zero, Zero)]

Peak(gain) == Band("peaking", FromInt(1000), FromInt(gain), One)

\* a band that carries a sample rate of its own
OwnRatePeak ==
  [Band("peaking", FromInt(10000), FromInt(6), One) EXCEPT !.sampleRate = FromInt(24000)]

\* the bands arrays of the aggregate calls
BandLists ==
  { <<>>,
    <<NullBand>>,
    <<Peak(6)>>,
    <<Peak(6), NullBand>>,
    <<NullBand, Peak(6)>>,
    <<OwnRatePeak>>,
    <<NullBand, Peak(6), Peak(0 - 6)>>,
    <<Peak(60)>>,
    <<Peak(30), Peak(30)>>,
    <<Peak(0 - 60)>>,
    <<Band("notch", FromInt(1000), FromInt(6), One)>>,
    <<Peak(6), Band("notch", FromInt(1000), FromInt(6), One)>>,
    <<Band("peaking", NaN, FromInt(6), One), Peak(6)>>,
    <<Band("lowshelf", FromInt(1000), FromInt(6), SQRT1_2)>>,
    <<Band("lowpass", FromInt(1000), Zero, SQRT1_2)>>,
    <<Peak(0), Band("highpass", FromInt(1000), Zero, SQRT1_2)>>,
    FlatBands,
    FlatBandsHighpass,
    FlatBandsNoQ }

\* numPoints: negative, zero, one, and up to MaxPoints
PointCounts == (0 - 1)..MaxPoints

\* <<minFreq, maxFreq>>: absent, ordinary spans, a span narrower than a
\* Float32Array element resolves, and spans that start at or below zero
FrequencySpans ==
  { <<Undefined, Undefined>>,
    <<FromInt(100), FromInt(10000)>>,
    <<FromInt(1000), FromInt(1100)>>,
    <<FromInt(1000), FromRatio(16001, 16)>>,
    <<Zero, FromInt(100)>>,
    <<FromInt(0 - 100), FromInt(100)>> }

TargetLists ==
  { <<>>, <<FromInt(1000)>>, <<FromInt(5000)>>, <<FromInt(20), FromInt(20000)>>,
    <<NaN, FromInt(1000), FromInt(0 - 5)>> }

\* what calculateProcessorResponse reads of a PEQProcessor state
PeqState(bands) == [present |-> TRUE, hasBands |-> TRUE, bands |-> bands]
NoPeqState == [present |-> FALSE, hasBands |-> FALSE, bands |-> <<>>]
PeqStateNoBands == [present |-> TRUE, hasBands |-> FALSE, bands |-> <<>>]

PeqStates ==
  { NoPeqState, PeqStateNoBands, PeqState(<<>>), PeqState(FlatBands),
    PeqState(FlatBandsHighpass), PeqState(<<Peak(6)>>) }

\* the spans calculateProcessorResponse is called with
ProcessorSpans == { <<Undefined, Undefined>>, <<FromInt(100), FromInt(10000)>> }

\* ------------------------------------------------------------------------
\* src/core/peqGraph.js: the filter nodes of the chain
\* ------------------------------------------------------------------------

DEFAULT_PEAKING_Q == One
DEFAULT_SHELF_Q == SQRT1_2

\* a number that || replaces: 0, NaN or undefined
Falsy(x) == x.k \in {"undef", "nan"} \/ (x.k = "num" /\ x.m = 0)

\* typeof x === 'number'
IsNumberType(x) == x.k \notin {"undef", "null"}

\* band.Q || (band.type === "peaking" ? DEFAULT_PEAKING_Q : DEFAULT_SHELF_Q)
filterQ(band) ==
  IF ~Falsy(band.Q) THEN band.Q
  ELSE IF band.type = "peaking" THEN DEFAULT_PEAKING_Q ELSE DEFAULT_SHELF_Q

\* createFilterNode: an AudioParam keeps the float32 nearest to what it is given
createFilterNode(band) ==
  [type |-> band.type,
   frequency |-> Fround(band.frequency),
   Q |-> Fround(filterQ(band)),
   gain |-> Fround(IF Falsy(band.gain) THEN Zero ELSE band.gain)]

\* the body of the forEach of updatePeqFilters for one filter and its band
updateFilter(filter, band) ==
  IF ~band.present THEN filter
  ELSE [type |-> IF band.type # "" /\ band.type # filter.type THEN band.type
                 ELSE filter.type,
        frequency |-> IF IsNumberType(band.frequency) THEN Fround(band.frequency)
                      ELSE filter.frequency,
        Q |-> IF IsNumberType(band.Q) THEN Fround(band.Q) ELSE filter.Q,
        gain |-> IF IsNumberType(band.gain) THEN Fround(band.gain) ELSE filter.gain]

\* updatePeqFilters(filters, bands): bands[index] is undefined past the end
updatePeqFilters(filterNodes, bands) ==
  [i \in DOMAIN filterNodes |->
     IF i <= Len(bands) THEN updateFilter(filterNodes[i], bands[i]) ELSE filterNodes[i]]

\* updatePreamp: the linear gain the preamp node takes for gainDb
updatePreamp(gainDb) == Fround(Pow10(FDiv(gainDb, FromInt(20))))

\* ------------------------------------------------------------------------
\* src/presets/presetManager.js
\* ------------------------------------------------------------------------

\* the value null, where a number may stand
Null == [k |-> "null", s |-> 1, m |-> 0, e |-> 0]

\* a preset object; name "" is a name that is missing or no string
Preset(name, description, preamp, bands) ==
  [object |-> TRUE, name |-> name, description |-> description, preamp |-> preamp,
   isArray |-> TRUE, bands |-> bands]

\* null in the place of a preset
NoPreset == Absent

\* the names name.trim() leaves nothing of
BlankNames == {"", " "}

VALID_TYPES == {"peaking", "lowshelf", "highshelf", "notch"}

\* the error the forEach of validatePreset throws for one band, "" for none;
\* a null band throws the TypeError of reading its frequency
bandError(band) ==
  IF ~band.present THEN "TypeError"
  ELSE IF ~IsNumberType(band.frequency) \/ FLt(band.frequency, FromInt(20))
          \/ FGt(band.frequency, FromInt(20000))
  THEN "invalid frequency"
  ELSE IF ~IsNumberType(band.gain) \/ FLt(band.gain, FromInt(0 - 24))
          \/ FGt(band.gain, FromInt(24))
  THEN "invalid gain"
  ELSE IF ~IsNumberType(band.Q) \/ FLe(band.Q, Zero) \/ FGt(band.Q, FromInt(10))
  THEN "invalid Q"
  ELSE IF band.type \notin VALID_TYPES THEN "invalid type"
  ELSE ""

\* the first band the forEach throws for
firstBandError(bands) ==
  bandError(bands[CHOOSE i \in DOMAIN bands :
                    /\ bandError(bands[i]) # ""
                    /\ \A j \in 1..(i - 1) : bandError(bands[j]) = ""])

\* validatePreset(preset): the error it throws, "" when it returns true
validatePreset(preset) ==
  IF ~preset.object THEN "Preset must be an object"
  ELSE IF preset.name \in BlankNames THEN "Preset must include a name"
  ELSE IF ~preset.isArray \/ Len(preset.bands) = 0
  THEN "Preset must include a bands array"
  ELSE IF \E i \in DOMAIN preset.bands : bandError(preset.bands[i]) # ""
  THEN firstBandError(preset.bands)
  ELSE ""

\* the reducer of calculateRecommendedPreamp over bands[i..]
RECURSIVE reduceMaxGain(_, _, _)
reduceMaxGain(bands, i, max) ==
  IF i > Len(bands) THEN max
  ELSE reduceMaxGain(bands, i + 1,
                     IF IsNumberType(bands[i].gain) /\ FGt(bands[i].gain, max)
                     THEN bands[i].gain ELSE max)

\* maxGain > 0 ? -maxGain : 0
negatedIfPositive(maxGain) == IF FGt(maxGain, Zero) THEN FNeg(maxGain) ELSE Zero

\* calculateRecommendedPreamp(bands)
calculateRecommendedPreamp(bands) ==
  IF Len(bands) = 0 THEN Zero ELSE negatedIfPositive(reduceMaxGain(bands, 1, Zero))

\* BAND_LAYOUT.length
LAYOUT_LENGTH == 10

\* ensureBandsCount(bands): the bands, then the bands of BAND_LAYOUT past them
\* with gain 0 and the default Q of their type
ensureBandsCount(bands) ==
  IF Len(bands) >= LAYOUT_LENGTH THEN bands
  ELSE bands \o SubSeq(FlatBands, Len(bands) + 1, LAYOUT_LENGTH)

\* normalizePreset as it would be if it recommended a preamp whenever the
\* preset's is falsy: preset.preamp || calculateRecommendedPreamp(bands)
resolvedPreampFalsy(preamp, bands) ==
  IF preamp.k \in {"undef", "null", "nan"} \/ (preamp.k = "num" /\ preamp.m = 0)
  THEN calculateRecommendedPreamp(bands) ELSE preamp

\* (preset.preamp !== undefined && preset.preamp !== null) ? preset.preamp
\* : calculateRecommendedPreamp(bands)
resolvedPreamp(preamp, bands) ==
  IF preamp.k \notin {"undef", "null"} THEN preamp
  ELSE calculateRecommendedPreamp(bands)

\* { ...preset, preamp, bands } of normalizePreset
normalizedWith(preset, bands) ==
  [preset EXCEPT !.preamp = resolvedPreamp(preset.preamp, bands), !.bands = bands]

\* normalizePreset(preset): what it throws, or the preset it returns
normalizePreset(preset) ==
  IF validatePreset(preset) # ""
  THEN [threw |-> TRUE, error |-> validatePreset(preset), preset |-> NoPreset]
  ELSE [threw |-> FALSE, error |-> "none",
        preset |-> normalizedWith(preset, ensureBandsCount(preset.bands))]

\* ------------------------------------------------------------------------
\* src/io/presetIO.js
\*
\* A text is the sequence of its lines. A line is held as the fields the
\* template literal writes between its fixed words ("Preamp:", "Filter",
\* "ON", "Fc", "Hz", "Gain", "dB", "Q"); a field is the sequence of the
\* characters written, and the expressions of parseAutoEqText are matched
\* against these characters.
\* ------------------------------------------------------------------------

DigitChars == <<"0", "1", "2", "3", "4", "5", "6", "7", "8", "9">>

\* the decimal digits of the integer n >= 0
RECURSIVE digitsOf(_)
digitsOf(n) ==
  IF n < 10 THEN <<DigitChars[n + 1]>>
  ELSE digitsOf(n \div 10) \o <<DigitChars[(n % 10) + 1]>>

\* the digits with zeros in front up to the width
zeroPadded(digits, width) ==
  IF Len(digits) >= width THEN digits
  ELSE [i \in 1..width |->
          IF i <= width - Len(digits) THEN "0" ELSE digits[i - (width - Len(digits))]]

\* the digits with a point before the last `places` of them
withPoint(digits, places) ==
  SubSeq(digits, 1, Len(digits) - places) \o <<".">>
    \o SubSeq(digits, Len(digits) - places + 1, Len(digits))

\* the integer nearest to m * 2^e * scale, the larger of two equally near
scaledInteger(m, e, scale) ==
  IF e >= 0 THEN m * Pow2(e) * scale
  ELSE IF 0 - e > 30 THEN 0
  ELSE (m * scale + Pow2(0 - e - 1)) \div Pow2(0 - e)

\* 10^places, for the places toFixed is called with
TenTo(places) == IF places = 1 THEN 10 ELSE 100

\* Number.prototype.toFixed(places) of a number (places is 1 or 2)
toFixed(x, places) ==
  IF x.k = "nan" THEN <<"N", "a", "N">>
  ELSE IF x.k = "inf"
  THEN (IF x.s < 0 THEN <<"-">> ELSE <<>>) \o <<"I", "n", "f", "i", "n", "i", "t", "y">>
  ELSE (IF x.s < 0 /\ x.m # 0 THEN <<"-">> ELSE <<>>)
         \o withPoint(zeroPadded(digitsOf(scaledInteger(x.m, x.e, TenTo(places))),
                                 places + 1), places)

\* `${Math.round(frequency)}`
roundedText(frequency) ==
  IF frequency.k # "num" THEN toFixed(frequency, 1)
  ELSE IF RoundInt(frequency) < 0 THEN <<"-">> \o digitsOf(0 - RoundInt(frequency))
  ELSE digitsOf(RoundInt(frequency))

\* value >= 0 ? `+${value.toFixed(1)}` : value.toFixed(1)
signedText(value) ==
  IF FGe(value, Zero) THEN <<"+">> \o toFixed(value, 1) ELSE toFixed(value, 1)

\* the switch of convertNativeToAutoEqText over band.type?.toLowerCase()
autoEqTypeOf(type) ==
  IF type = "lowshelf" THEN "LSC"
  ELSE IF type = "highshelf" THEN "HSC"
  ELSE IF type = "notch" THEN "NOTCH"
  ELSE "PK"

\* value || 0
orZero(value) ==
  IF value.k \in {"undef", "null", "nan"} THEN Zero ELSE value

\* `Preamp: ${preamp >= 0 ? '+' : ''}${preamp.toFixed(1)} dB`
PreampLine(preamp) ==
  [kind |-> "Preamp", num |-> <<>>, type |-> "", fc |-> <<>>,
   gain |-> (IF FGe(preamp, Zero) THEN <<"+">> ELSE <<>>) \o toFixed(preamp, 1),
   q |-> <<>>]

\* `Filter ${filterNum}: ON ${autoEqType} Fc ${fc} Hz Gain ${gain} dB Q ${q}`
FilterLine(band, filterNum) ==
  [kind |-> "Filter", num |-> digitsOf(filterNum), type |-> autoEqTypeOf(band.type),
   fc |-> roundedText(band.frequency), gain |-> signedText(band.gain),
   q |-> toFixed(band.Q, 2)]

\* Math.abs(band.gain) > 0.01
isActive(band) == FGt(FAbs(band.gain), FromRatio(1, 100))

\* bands.filter(band => Math.abs(band.gain) > 0.01)
activeFilters(bands) == SelectSeq(bands, isActive)

\* the lines of the filters
filterLines(active) == [i \in 1..Len(active) |-> FilterLine(active[i], i)]

\* convertNativeToAutoEqText(nativePreset): what it throws, or the text
convertNativeToAutoEqText(nativePreset) ==
  IF ~nativePreset.object THEN [threw |-> TRUE, error |-> "TypeError", text |-> <<>>]
  ELSE IF ~nativePreset.isArray
  THEN [threw |-> TRUE, error |-> "Native preset must have a bands array", text |-> <<>>]
  ELSE IF \E i \in DOMAIN nativePreset.bands :
            \/ ~nativePreset.bands[i].present
            \/ (isActive(nativePreset.bands[i])
                  /\ ~IsNumberType(nativePreset.bands[i].Q))
  THEN [threw |-> TRUE, error |-> "TypeError", text |-> <<>>]
  ELSE [threw |-> FALSE, error |-> "none",
        text |-> <<PreampLine(orZero(nativePreset.preamp))>>
                   \o filterLines(activeFilters(nativePreset.bands))]

\* the number of leading characters of the field that are digits
RECURSIVE digitRun(_, _)
digitRun(field, from) ==
  IF from > Len(field) \/ \A d \in DOMAIN DigitChars : DigitChars[d] # field[from]
  THEN 0
  ELSE 1 + digitRun(field, from + 1)

\* the length of what \d+\.?\d* matches at `from`, 0 when it does not match
unsignedRun(field, from) ==
  IF digitRun(field, from) = 0 THEN 0
  ELSE IF from + digitRun(field, from) <= Len(field)
          /\ field[from + digitRun(field, from)] = "."
  THEN digitRun(field, from) + 1 + digitRun(field, from + digitRun(field, from) + 1)
  ELSE digitRun(field, from)

\* the field starts with + or -
hasSign(field) == Len(field) > 0 /\ field[1] \in {"+", "-"}

\* the whole field is [+-]?\d+\.?\d* (the words after it must follow)
matchesSigned(field) ==
  IF hasSign(field) THEN unsignedRun(field, 2) = Len(field) - 1 /\ Len(field) > 1
  ELSE unsignedRun(field, 1) = Len(field) /\ Len(field) > 0

\* the whole field is \d+\.?\d*
matchesUnsigned(field) == Len(field) > 0 /\ unsignedRun(field, 1) = Len(field)

\* the integer the digits of field[from..to] spell, the point skipped
RECURSIVE digitsValue(_, _, _, _)
digitsValue(field, from, to, value) ==
  IF from > to THEN value
  ELSE IF field[from] = "." THEN digitsValue(field, from + 1, to, value)
  ELSE digitsValue(field, from + 1, to,
                   10 * value + (CHOOSE d \in 0..9 : DigitChars[d + 1] = field[from]))

\* the number of digits after the point of field[from..]
placesAfterPoint(field, from) ==
  IF \E i \in from..Len(field) : field[i] = "."
  THEN Len(field) - (CHOOSE i \in from..Len(field) : field[i] = ".")
  ELSE 0

RECURSIVE PowerOfTen(_)
PowerOfTen(places) == IF places = 0 THEN 1 ELSE 10 * PowerOfTen(places - 1)

\* parseFloat of a field that matched
parseFloat(field) ==
  IF hasSign(field)
  THEN (IF field[1] = "-"
        THEN FNeg(FromRatio(digitsValue(field, 2, Len(field), 0),
                            PowerOfTen(placesAfterPoint(field, 2))))
        ELSE FromRatio(digitsValue(field, 2, Len(field), 0),
                       PowerOfTen(placesAfterPoint(field, 2))))
  ELSE FromRatio(digitsValue(field, 1, Len(field), 0),
                 PowerOfTen(placesAfterPoint(field, 1)))

\* line.match(/Preamp:\s*([+-]?\d+\.?\d*)\s*dB/i)
preampMatch(line) == line.kind = "Preamp" /\ matchesSigned(line.gain)

\* line.match(/Filter\s+\d+:\s*ON\s+(\w+)\s+Fc\s+(\d+\.?\d*)\s*Hz\s+Gain\s*
\* ([+-]?\d+\.?\d*)\s*dB\s+Q\s+(\d+\.?\d*)/i): the Q is the last field and
\* matches when it starts with a digit
filterMatch(line) ==
  /\ line.kind = "Filter"
  /\ digitRun(line.num, 1) = Len(line.num) /\ Len(line.num) > 0
  /\ line.type # ""
  /\ matchesUnsigned(line.fc)
  /\ matchesSigned(line.gain)
  /\ unsignedRun(line.q, 1) > 0

\* a filter of parseAutoEqText
Filter(type, fc, gain, Q) == [type |-> type, fc |-> fc, gain |-> gain, Q |-> Q]

\* the filter pushed for a line that matched
parsedFilter(line) ==
  Filter(line.type, parseFloat(line.fc), parseFloat(line.gain),
         parseFloat(SubSeq(line.q, 1, unsignedRun(line.q, 1))))

\* the preamp after the loop: that of the last line that matched, else 0
parsedPreamp(lines) ==
  IF \E i \in DOMAIN lines : preampMatch(lines[i])
  THEN parseFloat(lines[CHOOSE i \in DOMAIN lines :
                          /\ preampMatch(lines[i])
                          /\ \A j \in (i + 1)..Len(lines) : ~preampMatch(lines[j])].gain)
  ELSE Zero

\* the filters after the loop
parsedFilters(matched) == [i \in 1..Len(matched) |-> parsedFilter(matched[i])]

\* parseAutoEqText(text): what it throws, or { name, preamp, filters }
parseAutoEqText(text) ==
  IF \A i \in DOMAIN text : preampMatch(text[i]) \/ ~filterMatch(text[i])
  THEN [threw |-> TRUE, error |-> "No valid filters found in AutoEq text.",
        name |-> "", preamp |-> Zero, filters |-> <<>>]
  ELSE [threw |-> FALSE, error |-> "none", name |-> "AutoEq Preset",
        preamp |-> parsedPreamp(text),
        filters |-> parsedFilters(SelectSeq(text,
                      LAMBDA line : ~preampMatch(line) /\ filterMatch(line)))]

\* the switch of convertAutoEqToNative over filter.type.toUpperCase()
nativeTypeOf(type) ==
  IF type \in {"LSC", "LOWSHELF"} THEN "lowshelf"
  ELSE IF type \in {"HSC", "HIGHSHELF"} THEN "highshelf"
  ELSE IF type = "NOTCH" THEN "notch"
  ELSE "peaking"

\* nativeType === 'peaking' ? 1.0 : 0.707
defaultQ(nativeType) == IF nativeType = "peaking" THEN One ELSE FromRatio(707, 1000)

\* filter.Q || defaultQ
qOrDefault(Q, nativeType) ==
  IF Q.k \in {"undef", "null", "nan"} \/ (Q.k = "num" /\ Q.m = 0)
  THEN defaultQ(nativeType) ELSE Q

\* the band of one filter
nativeBand(filter) ==
  Band(nativeTypeOf(filter.type), filter.fc, filter.gain,
       qOrDefault(filter.Q, nativeTypeOf(filter.type)))

\* autoEqPreset.filters.slice(0, 10)
MAX_FILTERS == 10

selectedFilters(filters) ==
  SubSeq(filters, 1, IF Len(filters) < MAX_FILTERS THEN Len(filters) ELSE MAX_FILTERS)

\* the band one turn of the while loop pushes: the first band of BAND_LAYOUT
\* whose frequency no band has, else a peaking band at 1000 + length * 100
paddingBand(nativeBands) ==
  IF \E l \in DOMAIN FlatBands :
       \A i \in DOMAIN nativeBands : nativeBands[i].frequency # FlatBands[l].frequency
  THEN Band(FlatBands[CHOOSE l \in DOMAIN FlatBands :
              /\ \A i \in DOMAIN nativeBands :
                   nativeBands[i].frequency # FlatBands[l].frequency
              /\ \A k \in 1..(l - 1) : \E i \in DOMAIN nativeBands :
                   nativeBands[i].frequency = FlatBands[k].frequency].type,
            FlatBands[CHOOSE l \in DOMAIN FlatBands :
              /\ \A i \in DOMAIN nativeBands :
                   nativeBands[i].frequency # FlatBands[l].frequency
              /\ \A k \in 1..(l - 1) : \E i \in DOMAIN nativeBands :
                   nativeBands[i].frequency = FlatBands[k].frequency].frequency,
            Zero,
            defaultQ(FlatBands[CHOOSE l \in DOMAIN FlatBands :
              /\ \A i \in DOMAIN nativeBands :
                   nativeBands[i].frequency # FlatBands[l].frequency
              /\ \A k \in 1..(l - 1) : \E i \in DOMAIN nativeBands :
                   nativeBands[i].frequency = FlatBands[k].frequency].type))
  ELSE Band("peaking", FromInt(1000 + Len(nativeBands) * 100), Zero, One)

\* while (nativeBands.length < 10) nativeBands.push(...)
RECURSIVE paddedBands(_)
paddedBands(nativeBands) ==
  IF Len(nativeBands) >= MAX_FILTERS THEN nativeBands
  ELSE paddedBands([i \in 1..(Len(nativeBands) + 1) |->
                      IF i <= Len(nativeBands) THEN nativeBands[i]
                      ELSE paddingBand(nativeBands)])

\* `AutoEq preset - ${filters.length} filters, ${selectedFilters.length} used`
importedDescription(all, used) ==
  "AutoEq preset - " \o ToString(all) \o " filters, " \o ToString(used) \o " used"

\* convertAutoEqToNative(autoEqPreset) of what parseAutoEqText returned
convertAutoEqToNative(autoEqPreset) ==
  Preset(autoEqPreset.name,
         importedDescription(Len(autoEqPreset.filters),
                             Len(selectedFilters(autoEqPreset.filters))),
         autoEqPreset.preamp,
         paddedBands([i \in 1..Len(selectedFilters(autoEqPreset.filters)) |->
                        nativeBand(autoEqPreset.filters[i])]))

\* text.includes('Preamp:') && text.includes('Filter') && text.includes('Hz')
looksLikeAutoEq(text) ==
  /\ \E i \in DOMAIN text : text[i].kind = "Preamp"
  /\ \E i \in DOMAIN text : text[i].kind = "Filter"

\* importPresetFromText(text) with no filename: what it throws, or the preset.
\* A text of these lines that is not taken for AutoEQ is no JSON either.
importPresetFromText(text) ==
  IF ~looksLikeAutoEq(text)
  THEN [threw |-> TRUE, error |-> "SyntaxError", preset |-> NoPreset]
  ELSE IF parseAutoEqText(text).threw
  THEN [threw |-> TRUE, error |-> parseAutoEqText(text).error, preset |-> NoPreset]
  ELSE [threw |-> FALSE, error |-> "none",
        preset |-> convertAutoEqToNative(parseAutoEqText(text))]

\* ------------------------------------------------------------------------
\* src/peqProcessor.js
\*
\* Objects have identity. The heap holds the band records (cells), the bands
\* arrays (each a sequence of cell addresses) and the state objects (each with
\* the address of its bands array); an address is an index into its sequence.
\* ------------------------------------------------------------------------

\* the cell addresses of the bands array of state object obj
bandsOf(h, obj) == h.arrays[h.objects[obj].bands]

\* the band records of state object obj, in order
bandRecords(h, obj) == [i \in DOMAIN bandsOf(h, obj) |-> h.cells[bandsOf(h, obj)[i]]]

\* cloneBands as it would be if it copied the array and kept the records:
\* bands.map((band) => band)
cloneBandsSameRecords(h, bands) ==
  [h EXCEPT !.arrays = Append(h.arrays, h.arrays[bands])]

\* cloneBands(bands): a new array of new records, one { ...band } per band;
\* the new array is the last of the arrays
cloneBands(h, bands) ==
  [h EXCEPT
     !.cells = h.cells \o [i \in DOMAIN h.arrays[bands] |-> h.cells[h.arrays[bands][i]]],
     !.arrays = Append(h.arrays,
                       [i \in DOMAIN h.arrays[bands] |-> Len(h.cells) + i])]

\* the object literal of getState around the array cloneBands has just made
stateLiteral(h, self) ==
  [h EXCEPT !.objects = Append(h.objects,
                               [h.objects[self] EXCEPT !.bands = Len(h.arrays)])]

\* getState(): the new object is the last of the objects
getState(h, self) == stateLiteral(cloneBands(h, h.objects[self].bands), self)

\* a changes argument: an object with the given own keys, or no object at all
Changes(keys, values) == [object |-> TRUE, keys |-> keys, values |-> values]
NoChanges == [object |-> FALSE, keys |-> {}, values |-> NullBand]

\* { ...band, ...changes }: every own key of changes overrides the band's
mergeBand(band, changes) ==
  [present |-> TRUE,
   type |-> IF "type" \in changes.keys THEN changes.values.type ELSE band.type,
   frequency |-> IF "frequency" \in changes.keys THEN changes.values.frequency
                 ELSE band.frequency,
   gain |-> IF "gain" \in changes.keys THEN changes.values.gain ELSE band.gain,
   Q |-> IF "Q" \in changes.keys THEN changes.values.Q ELSE band.Q,
   S |-> IF "S" \in changes.keys THEN changes.values.S ELSE band.S,
   sampleRate |-> IF "sampleRate" \in changes.keys THEN changes.values.sampleRate
                  ELSE band.sampleRate,
   index |-> IF "index" \in changes.keys THEN changes.values.index ELSE band.index]

\* { ...undefined }: the record nextBands[index] spreads when index is past the end
EmptyRecord ==
  [present |-> TRUE, type |-> "", frequency |-> Undefined, gain |-> Undefined,
   Q |-> Undefined, S |-> Undefined, sampleRate |-> Undefined, index |-> NoIndex]

\* nextBands[index] of the array cloneBands has just made
elementAt(h, index) ==
  IF index < Len(h.arrays[Len(h.arrays)])
  THEN h.cells[h.arrays[Len(h.arrays)][index + 1]]
  ELSE EmptyRecord

\* items[index] = address, for 0 <= index <= items.length
setElement(items, index, address) ==
  [i \in 1..(IF index < Len(items) THEN Len(items) ELSE index + 1) |->
     IF i = index + 1 THEN address ELSE items[i]]

\* nextBands[index] = { ...nextBands[index], ...changes }
assignMerged(h, index, changes) ==
  [h EXCEPT
     !.cells = Append(h.cells, mergeBand(elementAt(h, index), changes)),
     !.arrays[Len(h.arrays)] = setElement(@, index, Len(h.cells) + 1)]

\* this.state.bands = nextBands, the last of the arrays
assignBands(h, self) == [h EXCEPT !.objects[self].bands = Len(h.arrays)]

\* lines 132-138 of updateBand
withUpdatedBand(h, self, index, changes) ==
  assignBands(assignMerged(cloneBands(h, h.objects[self].bands), index, changes), self)

\* the guard of updateBand as it would be if it tested the lower end only
indexOutOfRangeBelowOnly(index, length) == index < 0

\* index < 0 || index >= this.state.bands.length
indexOutOfRange(index, length) == index < 0 \/ index >= length

\* !changes || typeof changes !== 'object'
notAnObject(changes) == ~changes.object

\* { ...band }: the spread of null or undefined is the empty record
spread(band) == IF band.present THEN band ELSE EmptyRecord

\* cloneBands(bands) of an array the caller passes: a new array of new
\* records, the last of the arrays
cloneGiven(h, bands) ==
  [h EXCEPT
     !.cells = h.cells \o [i \in DOMAIN bands |-> spread(bands[i])],
     !.arrays = Append(h.arrays, [i \in DOMAIN bands |-> Len(h.cells) + i])]

\* loadPreset as it would be without the spread of this.state: bypass is gone
loadedStateWithoutSpread(h, self, normalized) ==
  [cloneGiven(h, normalized.bands) EXCEPT
     !.objects[self] = [name |-> normalized.name,
                        description |-> normalized.description,
                        preamp |-> normalized.preamp,
                        bands |-> Len(h.arrays) + 1,
                        bypass |-> FALSE]]

\* loadPreset line 196-202: this.state = { ...this.state, name, description,
\* preamp, bands: cloneBands(normalized.bands) }; nothing but the processor
\* refers to the state object, so the new one takes the place of the old
loadedState(h, self, normalized) ==
  [cloneGiven(h, normalized.bands) EXCEPT
     !.objects[self] = [name |-> normalized.name,
                        description |-> normalized.description,
                        preamp |-> normalized.preamp,
                        bands |-> Len(h.arrays) + 1,
                        bypass |-> h.objects[self].bypass]]

\* an element of the updates array of updateBands: an object with an index
\* key (or without one) beside its other keys, or no object at all
Update(index, changes) ==
  [object |-> TRUE, hasIndex |-> TRUE, index |-> index,
   keys |-> changes.keys \cup {"index"},
   values |-> [changes.values EXCEPT !.index = index]]
UpdateWithoutIndex(changes) ==
  [object |-> TRUE, hasIndex |-> FALSE, index |-> NoIndex,
   keys |-> changes.keys, values |-> changes.values]
NoUpdate ==
  [object |-> FALSE, hasIndex |-> FALSE, index |-> NoIndex, keys |-> {},
   values |-> NullBand]

\* the guards of the forEach of updateBands; length is nextBands.length
skipped(update, length) ==
  \/ ~update.object
  \/ ~update.hasIndex
  \/ update.index < 0
  \/ update.index >= length

\* the forEach of updateBands over updates[i..], nextBands being the last of
\* the arrays
RECURSIVE mergeUpdates(_, _, _)
mergeUpdates(h, updates, i) ==
  IF i > Len(updates) THEN h
  ELSE mergeUpdates(IF skipped(updates[i], Len(h.arrays[Len(h.arrays)])) THEN h
                    ELSE assignMerged(h, updates[i].index, updates[i]),
                    updates, i + 1)

\* lines 149-161 of updateBands
withUpdatedBands(h, self, updates) ==
  assignBands(mergeUpdates(cloneBands(h, h.objects[self].bands), updates, 1), self)

\* the argument of setState: an object whose bands, preamp, bypass, name and
\* description may each be missing (bypass "none" is no boolean, name "" and
\* description "" are falsy), or no object at all
StateArgument(hasBands, bands, preamp, bypass, name, description) ==
  [object |-> TRUE, hasBands |-> hasBands, bands |-> bands, preamp |-> preamp,
   bypass |-> bypass, name |-> name, description |-> description]
NoStateArgument ==
  [object |-> FALSE, hasBands |-> FALSE, bands |-> <<>>, preamp |-> Undefined,
   bypass |-> "none", name |-> "", description |-> ""]

\* setState line 223-224: if (state.bands) this.state.bands = cloneBands(state.bands)
stateBandsSet(h, self, state) ==
  IF state.hasBands THEN assignBands(cloneGiven(h, state.bands), self) ELSE h

\* setState lines 227-240, the fields of this.state other than bands
stateFieldsSet(fields, state) ==
  [fields EXCEPT
     !.preamp = IF IsNumberType(state.preamp) THEN state.preamp ELSE @,
     !.bypass = IF state.bypass = "none" THEN @ ELSE state.bypass = "true",
     !.name = IF state.name # "" THEN state.name ELSE @,
     !.description = IF state.description # "" THEN state.description ELSE @]

\* this.state after setState(state)
withState(h, self, state) ==
  [stateBandsSet(h, self, state) EXCEPT !.objects[self] = stateFieldsSet(@, state)]

\* _applyBypass as it would be if it left the wet path open
wetGainOpen(bypass) == 1

\* _applyBypass: the gains of the dry and of the wet path
dryGainFor(bypass) == IF bypass THEN 1 ELSE 0
wetGainFor(bypass) == IF bypass THEN 0 ELSE 1

\* ------------------------------------------------------------------------
\* Object identity: what no root reaches is gone, and an address is only a
\* name. After every operation the heap is rewritten with the reachable
\* objects in the order a walk from the roots meets them.
\* ------------------------------------------------------------------------

Range(s) == { s[i] : i \in DOMAIN s }

AddOnce(s, x) == IF x \in Range(s) THEN s ELSE Append(s, x)

RECURSIVE Distinct(_)
Distinct(s) ==
  IF s = <<>> THEN <<>>
  ELSE AddOnce(Distinct(SubSeq(s, 1, Len(s) - 1)), s[Len(s)])

RECURSIVE Flatten(_)
Flatten(ss) == IF ss = <<>> THEN <<>> ELSE ss[1] \o Flatten(Tail(ss))

Position(order, a) == CHOOSE i \in DOMAIN order : order[i] = a

\* the roots: the processor's state object, then the object the caller holds
objectOrder(self, held) == Distinct(IF held = 0 THEN <<self>> ELSE <<self, held>>)

arrayOrder(h, objects) == Distinct([i \in DOMAIN objects |-> h.objects[objects[i]].bands])

cellOrder(h, arrays) == Distinct(Flatten([i \in DOMAIN arrays |-> h.arrays[arrays[i]]]))

rewritten(h, objects, arrays, cells) ==
  [objects |-> [i \in DOMAIN objects |->
                  [h.objects[objects[i]] EXCEPT !.bands = Position(arrays, @)]],
   arrays |-> [i \in DOMAIN arrays |->
                 [j \in DOMAIN h.arrays[arrays[i]] |->
                    Position(cells, h.arrays[arrays[i]][j])]],
   cells |-> [i \in DOMAIN cells |-> h.cells[cells[i]]]]

rewrittenFrom(h, objects, arrays) == rewritten(h, objects, arrays, cellOrder(h, arrays))

reachable(h, self, held) ==
  rewrittenFrom(h, objectOrder(self, held), arrayOrder(h, objectOrder(self, held)))

\* ------------------------------------------------------------------------
\* src/peqProcessor.js: listeners
\*
\* this.listeners maps an event to the Set of its handlers; a Set keeps the
\* order of insertion and on/off never leave an empty Set in the Map, so the
\* Map is a sequence of handlers without repetition per event, <<>> for an
\* event without entry.
\* ------------------------------------------------------------------------

EVENTS == {"bandchange", "preampchange", "presetload", "bypasschange", "statechange"}

\* the handlers: one that returns, one that throws; 0 is a handler argument
\* that is no function
Handlers == {1, 2}
ThrowingHandlers == {2}
NotAFunction == 0

NoListeners == [event \in EVENTS |-> <<>>]

\* on(event, handler): no effect for a falsy event ("") or a handler that is no
\* function; listeners.add(handler) leaves a handler already in the Set where it is
on(ls, event, handler) ==
  IF event = "" \/ handler = NotAFunction THEN ls
  ELSE [e \in DOMAIN ls |-> IF e = event THEN AddOnce(ls[e], handler) ELSE ls[e]]

\* the handlers but x, in order
Without(handlers, x) == SelectSeq(handlers, LAMBDA h : h # x)

\* off(event, handler), which is also what the function on returns calls
off(ls, event, handler) ==
  IF event \notin DOMAIN ls THEN ls
  ELSE [e \in DOMAIN ls |-> IF e = event THEN Without(ls[e], handler) ELSE ls[e]]

\* the calls made to the handlers, in order
callsOf(event, handlers) ==
  [i \in DOMAIN handlers |-> [event |-> event, handler |-> handlers[i]]]

\* the handlers up to the first that throws, that one included
upToFirstThrow(handlers) ==
  IF \A i \in DOMAIN handlers : handlers[i] \notin ThrowingHandlers THEN handlers
  ELSE SubSeq(handlers, 1,
              CHOOSE i \in DOMAIN handlers :
                /\ handlers[i] \in ThrowingHandlers
                /\ \A j \in 1..(i - 1) : handlers[j] \notin ThrowingHandlers)

\* emit as it would be without its try/catch: the first handler that throws
\* ends the forEach and the exception leaves emit
emitUncaught(ls, event) ==
  [events |-> <<event>>,
   calls |-> callsOf(event, upToFirstThrow(ls[event])),
   threw |-> \E i \in DOMAIN ls[event] : ls[event][i] \in ThrowingHandlers]

\* emit(event, payload): every handler of the event is called in order, what
\* a handler throws is caught and logged; emit never throws
emit(ls, event) ==
  [events |-> <<event>>, calls |-> callsOf(event, ls[event]), threw |-> FALSE]

\* two consecutive emit statements the other way round
andThenReversed(first, second) ==
  IF second.threw THEN second
  ELSE [events |-> second.events \o first.events, calls |-> second.calls \o first.calls,
        threw |-> first.threw]

\* two consecutive emit statements: the second runs unless the first threw
andThen(first, second) ==
  IF first.threw THEN first
  ELSE [events |-> first.events \o second.events, calls |-> first.calls \o second.calls,
        threw |-> second.threw]

\* ------------------------------------------------------------------------
\* State: the call in progress and its outcome
\* ------------------------------------------------------------------------

VARIABLES pc, op, args, ret

\* a PEQProcessor: the heap of its objects, the object the caller holds (0 for
\* none) and the number of writes the caller has made to it, its filter nodes,
\* the gains of its preamp, dry and wet nodes, the events its last operation
\* emitted, and that operation's outcome
VARIABLES heap, held, writes, filters, preampGain, dryGain, wetGain, emitted, outcome

\* its listeners, the calls its last operation made to them, and what each
\* emission of that operation handed over and let a listener see
VARIABLES listeners, delivered, observed

callVars == <<pc, op, args, ret>>
peqVars ==
  <<heap, held, writes, filters, preampGain, dryGain, wetGain, emitted, outcome,
    listeners, delivered, observed>>
vars == <<callVars, peqVars>>

\* this.state is the first of the objects
ThisState == 1

\* the changes of the README: { gain: 3 } and { frequency: 3200, gain: -2 }
GainChange == Changes({"gain"}, [NullBand EXCEPT !.gain = FromInt(3)])
FrequencyChange ==
  Changes({"frequency", "gain"},
          [NullBand EXCEPT !.frequency = FromInt(3200), !.gain = FromInt(0 - 2)])

\* the updateBand calls: the first and the last band, the indices next to
\* them, and a call without changes
UpdateCalls ==
  { <<0, GainChange>>, <<Len(FlatBands) - 1, FrequencyChange>>, <<0, NoChanges>>,
    <<0 - 1, GainChange>>, <<Len(FlatBands), FrequencyChange>> }

\* BUNDLED_PRESETS.BASS_BOOST.bands
BassBoostBands ==
  <<Band("lowshelf", FromInt(60), FromInt(6), DEFAULT_SHELF_Q),
    Band("peaking", FromInt(150), FromInt(4), DEFAULT_PEAKING_Q),
    Band("peaking", FromInt(400), Zero, DEFAULT_PEAKING_Q),
    Band("peaking", FromInt(1000), Zero, DEFAULT_PEAKING_Q),
    Band("peaking", FromInt(2400), FromInt(0 - 1), FromRatio(12, 10)),
    Band("peaking", FromInt(4800), FromRatio(0 - 15, 10), FromRatio(11, 10)),
    Band("peaking", FromInt(9600), FromRatio(0 - 15, 10), One),
    Band("peaking", FromInt(12000), Zero, One),
    Band("peaking", FromInt(14000), Zero, One),
    Band("highshelf", FromInt(16000), Zero, DEFAULT_SHELF_Q)>>

\* the two filters of the README's AutoEQ text, as bands
ImportedBands ==
  <<Band("lowshelf", FromInt(105), FromRatio(29, 10), FromRatio(70, 100)),
    Band("peaking", FromInt(2042), FromRatio(0 - 42, 10), FromRatio(214, 100))>>

\* a single cut
CutBands == <<Band("peaking", FromInt(1000), FromInt(0 - 3), One)>>

\* one band more than BAND_LAYOUT has
ElevenBands == Append(FlatBands, Band("notch", FromInt(18000), FromInt(2), FromInt(10)))

\* a gain of NaN is a number and neither below -24 nor above 24
NaNGainBands ==
  <<Band("peaking", FromInt(1000), NaN, One),
    Band("highshelf", FromInt(8000), FromRatio(15, 10), DEFAULT_SHELF_Q)>>

\* null is no number: setPreamp throws for it
PreampPool == {FromInt(0 - 6), Undefined, Null}

\* the updates arrays of updateBands, and an argument that is no array
Updates(items) == [isArray |-> TRUE, items |-> items]
NotAnArray == [isArray |-> FALSE, items |-> <<>>]
UpdatesPool ==
  { Updates(<<>>),
    Updates(<<NoUpdate, UpdateWithoutIndex(GainChange), Update(0 - 1, GainChange),
              Update(Len(FlatBands), GainChange), Update(0, GainChange),
              Update(Len(FlatBands) - 1, FrequencyChange)>>),
    NotAnArray }

\* the presets loadPreset is called with
LoadedPresets ==
  { Preset("Bass Boost", "Enhanced low-end for EDM and hip-hop", FromInt(0 - 6),
           BassBoostBands),
    Preset("Bass Boost", "Enhanced low-end for EDM and hip-hop", Undefined,
           ImportedBands),
    Preset("", "", Zero, BassBoostBands),
    Preset("Too loud", "", Zero, <<Peak(3), Band("peaking", FromInt(1000), FromInt(30), One)>>),
    NoPreset }

\* the arguments setState is called with
StateArguments ==
  { StateArgument(TRUE, <<NullBand, Peak(0 - 3)>>, Undefined, "none", "", ""),
    StateArgument(FALSE, <<>>, FromInt(0 - 6), "true", "Restored", "Restored state"),
    StateArgument(FALSE, <<>>, Null, "false", "", ""),
    NoStateArgument }

\* the events listeners are registered for
ListenedEvents == {"bandchange", "statechange"}

\* what the last operation was, and how it ended
Outcome(name, index, changes, error, retained) ==
  [op |-> name, index |-> index, changes |-> changes, error |-> error,
   retained |-> retained]

\* new PEQProcessor(audioContext): ensurePreset({}) gives the bands of
\* DEFAULT_PRESET under the name 'Custom Preset'
InitialHeap ==
  [objects |-> <<[name |-> "Custom Preset",
                  description |-> "PEQ Processor Initial State",
                  preamp |-> Zero, bands |-> 1, bypass |-> FALSE]>>,
   arrays |-> <<[i \in DOMAIN FlatBands |-> i]>>,
   cells |-> FlatBands]

InitialFilters ==
  updatePeqFilters([i \in DOMAIN FlatBands |-> createFilterNode(FlatBands[i])], FlatBands)

PeqInit ==
  /\ heap = InitialHeap
  /\ held = 0
  /\ writes = 0
  /\ filters = InitialFilters
  /\ preampGain = updatePreamp(Zero)
  /\ dryGain = 0
  /\ wetGain = 1
  /\ emitted = <<>>
  /\ outcome = Outcome("constructor", 0, NoChanges, "", FALSE)
  /\ listeners = NoListeners
  /\ delivered = <<>>
  /\ observed = <<>>

NoArgs ==
  [frequency |-> Undefined, band |-> NullBand, bands |-> <<>>, numPoints |-> 0,
   minFreq |-> Undefined, maxFreq |-> Undefined, sampleRate |-> Undefined,
   targetFrequencies |-> <<>>, peqState |-> NoPeqState, preset |-> Absent]

Init ==
  /\ pc = "idle"
  /\ op = "none"
  /\ args = NoArgs
  /\ ret = Returned(Zero, <<>>, <<>>)
  /\ PeqInit

CallCalculateBandResponse ==
  /\ pc = "idle"
  /\ \E band \in DesignBands \cup GuardBands \cup OwnRateBands,
        sampleRate \in SampleRateOptions :
       \E frequency \in IF band \in GuardBands
                          THEN {FromInt(1000)} \cup BadNumbers
                          ELSE EvalFrequencies :
         /\ args' = [NoArgs EXCEPT !.frequency = frequency, !.band = band,
                                   !.sampleRate = sampleRate]
         /\ ret' = Returned(calculateBandResponse(frequency, band,
                                                  [sampleRate |-> sampleRate]),
                            <<>>, <<>>)
  /\ op' = "calculateBandResponse"
  /\ pc' = "done"
  /\ UNCHANGED peqVars

\* a band whose own or whose caller's sample rate is no positive finite number
CallCalculateBandResponseBadRate ==
  /\ pc = "idle"
  /\ \E t \in TypePool, g \in {Zero, FromInt(6)},
        own \in {Undefined, FromInt(0 - 1)}, sampleRate \in BadNumbers :
       /\ args' = [NoArgs EXCEPT
                     !.frequency = FromInt(1000),
                     !.band = [Band(t, FromInt(1000), g, One) EXCEPT !.sampleRate = own],
                     !.sampleRate = sampleRate]
       /\ ret' = Returned(calculateBandResponse(FromInt(1000),
                            [Band(t, FromInt(1000), g, One) EXCEPT !.sampleRate = own],
                            [sampleRate |-> sampleRate]),
                          <<>>, <<>>)
  /\ op' = "calculateBandResponse"
  /\ pc' = "done"
  /\ UNCHANGED peqVars

\* the caller may pass minFreq and maxFreq: the function declares numPoints only
CallGenerateFrequencies ==
  /\ pc = "idle"
  /\ \E numPoints \in PointCounts, span \in FrequencySpans :
       /\ args' = [NoArgs EXCEPT !.numPoints = numPoints, !.minFreq = span[1],
                                 !.maxFreq = span[2]]
       /\ ret' = generateFrequencies(numPoints)
  /\ op' = "generateFrequencies"
  /\ pc' = "done"
  /\ UNCHANGED peqVars

CallCalculateFrequencyResponse ==
  /\ pc = "idle"
  /\ \E bands \in BandLists, numPoints \in PointCounts, span \in FrequencySpans,
        sampleRate \in {Undefined, FromInt(24000)} :
       /\ args' = [NoArgs EXCEPT !.bands = bands, !.numPoints = numPoints,
                                 !.minFreq = span[1], !.maxFreq = span[2],
                                 !.sampleRate = sampleRate]
       /\ ret' = calculateFrequencyResponse(bands,
                   [numPoints |-> numPoints, minFreq |-> span[1], maxFreq |-> span[2],
                    sampleRate |-> sampleRate])
  /\ op' = "calculateFrequencyResponse"
  /\ pc' = "done"
  /\ UNCHANGED peqVars

CallCalculateProcessorResponse ==
  /\ pc = "idle"
  /\ \E peqState \in PeqStates, numPoints \in PointCounts, span \in ProcessorSpans,
        sampleRate \in {Undefined, FromInt(24000)} :
       /\ args' = [NoArgs EXCEPT !.peqState = peqState, !.bands = peqState.bands,
                                 !.numPoints = numPoints, !.minFreq = span[1],
                                 !.maxFreq = span[2], !.sampleRate = sampleRate]
       /\ ret' = calculateProcessorResponse(peqState,
                   [numPoints |-> numPoints, minFreq |-> span[1],
                    maxFreq |-> span[2], sampleRate |-> sampleRate])
  /\ op' = "calculateProcessorResponse"
  /\ pc' = "done"
  /\ UNCHANGED peqVars

CallGetResponseAtFrequencies ==
  /\ pc = "idle"
  /\ \E bands \in BandLists, targetFrequencies \in TargetLists,
        sampleRate \in {Undefined, FromInt(24000)} :
       /\ args' = [NoArgs EXCEPT !.bands = bands,
                                 !.targetFrequencies = targetFrequencies,
                                 !.sampleRate = sampleRate]
       /\ ret' = getResponseAtFrequencies(bands, targetFrequencies,
                                          [sampleRate |-> sampleRate])
  /\ op' = "getResponseAtFrequencies"
  /\ pc' = "done"
  /\ UNCHANGED peqVars

\* the caller takes the outcome; the module keeps nothing between calls
Return ==
  /\ pc = "done"
  /\ pc' = "idle"
  /\ op' = "none"
  /\ args' = NoArgs
  /\ ret' = Returned(Zero, <<>>, <<>>)
  /\ UNCHANGED peqVars

Next ==
  \/ CallCalculateBandResponse
  \/ CallCalculateBandResponseBadRate
  \/ CallGenerateFrequencies
  \/ CallCalculateFrequencyResponse
  \/ CallCalculateProcessorResponse
  \/ CallGetResponseAtFrequencies
  \/ Return

Spec == Init /\ [][Next]_vars

\* ------------------------------------------------------------------------
\* Calls to the preset layer
\* ------------------------------------------------------------------------

ValidBandLists ==
  {BassBoostBands, ImportedBands, CutBands, ElevenBands, NaNGainBands, FlatBands}

\* bands arrays validatePreset throws for
InvalidBandLists ==
  { <<>>, <<NullBand>>,
    <<Band("peaking", FromInt(10), FromInt(3), One)>>,
    <<Peak(3), Band("peaking", FromInt(1000), FromInt(30), One)>>,
    <<Peak(3), Band("peaking", FromInt(1000), Undefined, One)>>,
    <<Band("peaking", FromInt(1000), FromInt(3), Zero)>>,
    <<Band("lowpass", FromInt(1000), FromInt(3), One)>>,
    <<Band("", FromInt(1000), FromInt(3), One)>> }

PresetNames == {"Bass Boost", "", " "}
PresetDescriptions == {"", "Enhanced low-end for EDM and hip-hop"}
PresetPreamps == {Undefined, Null, Zero, FromInt(0 - 6), FromInt(3), FromRatio(0 - 41, 10)}

\* the presets the preset layer is called with
Presets ==
  { Preset(name, description, preamp, bands) :
      name \in PresetNames, description \in PresetDescriptions,
      preamp \in PresetPreamps, bands \in ValidBandLists \cup InvalidBandLists }
  \cup {NoPreset, [Preset("Bass Boost", "", Zero, <<>>) EXCEPT !.isArray = FALSE]}

CallNormalizePreset ==
  /\ pc = "idle"
  /\ \E preset \in Presets :
       /\ args' = [NoArgs EXCEPT !.preset = preset]
       /\ ret' = IF normalizePreset(preset).threw
                 THEN Threw(normalizePreset(preset).error)
                 ELSE [Returned(Zero, <<>>, <<>>) EXCEPT
                         !.preset = normalizePreset(preset).preset]
  /\ op' = "normalizePreset"
  /\ pc' = "done"
  /\ UNCHANGED peqVars

\* eleven bands that are all written to the text
ElevenActiveBands ==
  [i \in 1..11 |-> Band("peaking", FromInt(100 * i), FromInt(i - 6) , One)]

\* bands validatePreset accepts whose numbers the text rounds or cannot hold
RoundedBandLists ==
  { <<Band("peaking", FromRatio(2001, 2), FromRatio(5, 4), FromRatio(113, 40)),
      Band("highshelf", FromInt(20000), FromInt(0 - 24), FromInt(10)),
      Band("notch", FromInt(20), FromRatio(1, 50), FromRatio(1, 100))>>,
    <<Band("peaking", FromInt(1000), FromInt(3), FromRatio(1, 1000))>>,
    <<Band("peaking", NaN, FromInt(3), One), Peak(0 - 3)>>,
    <<Band("peaking", FromInt(1000), FromInt(3), NaN), Peak(0 - 3)>>,
    ElevenActiveBands }

\* the presets that are exported and imported again
ExportedPresets ==
  Presets
    \cup { Preset("Rounded", "", preamp, bands) :
             preamp \in PresetPreamps \cup {FromRatio(1, 25), NaN},
             bands \in RoundedBandLists }
    \cup { Preset("Flat", "", Zero, FlatBands) }

\* importPresetFromText(exportPreset(preset, 'autoeq-text'))
CallExportThenImport ==
  /\ pc = "idle"
  /\ \E preset \in ExportedPresets :
       /\ args' = [NoArgs EXCEPT !.preset = preset]
       /\ ret' = IF convertNativeToAutoEqText(preset).threw
                 THEN Threw(convertNativeToAutoEqText(preset).error)
                 ELSE IF importPresetFromText(convertNativeToAutoEqText(preset).text).threw
                 THEN [Threw(importPresetFromText(
                               convertNativeToAutoEqText(preset).text).error) EXCEPT
                         !.text = convertNativeToAutoEqText(preset).text]
                 ELSE [Returned(Zero, <<>>, <<>>) EXCEPT
                         !.text = convertNativeToAutoEqText(preset).text,
                         !.preset = importPresetFromText(
                                      convertNativeToAutoEqText(preset).text).preset]
  /\ op' = "exportThenImport"
  /\ pc' = "done"
  /\ UNCHANGED peqVars

PresetNext ==
  \/ CallNormalizePreset
  \/ CallExportThenImport
  \/ Return

PresetSpec == Init /\ [][PresetNext]_vars

\* ------------------------------------------------------------------------
\* State of a PEQProcessor and the operations on it
\* ------------------------------------------------------------------------

\* the heap after an operation, and the object the caller holds in it
Settle(h, newHeld) ==
  /\ heap' = reachable(h, ThisState, newHeld)
  /\ held' = IF newHeld = 0 THEN 0
             ELSE Position(objectOrder(ThisState, newHeld), newHeld)

\* this.emit(EVENTS.STATE_CHANGE, this.getState()): a listener may keep the
\* payload in the place of what the caller held
EmitStateChange(h, retain) ==
  /\ Settle(getState(h, ThisState), IF retain THEN Len(h.objects) + 1 ELSE held)
  /\ writes' = IF retain THEN 0 ELSE writes

\* what a state object says: its own fields, and its band records in order
stateSeen(h, obj) ==
  [fields |-> [h.objects[obj] EXCEPT !.bands = 0], bands |-> bandRecords(h, obj)]

\* the payload this.getState() of an emission
statePayload(h) == stateSeen(getState(h, ThisState), Len(h.objects) + 1)

\* the payloads of an operation that emits its own event with the payload
\* detail and then statechange
payloadsOf(specific, detail, h) ==
  [event \in {specific, "statechange"} |->
     IF event = "statechange" THEN statePayload(h) ELSE detail]

\* an operation that ended without reaching an emit statement
Quiet ==
  /\ emitted' = <<>>
  /\ delivered' = <<>>
  /\ observed' = <<>>

\* the emit statements are the last of every operation: each emission hands
\* its payload over while the processor says h and its nodes are as the
\* operation leaves them; what an emission throws is the operation's error
Emitting(e, payloads, h, out) ==
  /\ emitted' = e.events
  /\ delivered' = e.calls
  /\ observed' =
       [i \in DOMAIN e.events |->
          [event |-> e.events[i], payload |-> payloads[e.events[i]],
           state |-> stateSeen(h, ThisState),
           nodes |-> [filters |-> filters', preampGain |-> preampGain',
                      dryGain |-> dryGain', wetGain |-> wetGain']]]
  /\ outcome' = [out EXCEPT !.error = IF e.threw THEN "Error" ELSE @]

\* how an operation with an argument of its own ended
Ended(name, argument, error) ==
  [op |-> name, index |-> 0, changes |-> NoChanges, error |-> error,
   retained |-> FALSE, argument |-> argument]

\* lines 132-141 of updateBand, h being the heap after line 138
UpdateBandCommit(h, index, changes, retain) ==
  /\ EmitStateChange(h, retain)
  /\ filters' = updatePeqFilters(filters, bandRecords(h, ThisState))
  /\ UNCHANGED <<preampGain, dryGain, wetGain, listeners>>
  /\ Emitting(andThen(emit(listeners, "bandchange"), emit(listeners, "statechange")),
              payloadsOf("bandchange",
                         [index |-> index, band |-> elementAt(h, index)], h),
              h, Outcome("updateBand", index, changes, "", retain))

\* updateBand(index, changes), the listener of statechange keeping the
\* payload or not as retains allows
UpdateBandCall(retains) ==
  /\ \E call \in UpdateCalls, retain \in retains :
       IF indexOutOfRange(call[1], Len(bandsOf(heap, ThisState)))
       THEN /\ outcome' = Outcome("updateBand", call[1], call[2], "RangeError", FALSE)
            /\ Quiet
            /\ UNCHANGED <<heap, held, writes, filters, preampGain, dryGain, wetGain,
                           listeners>>
       ELSE IF notAnObject(call[2])
       THEN /\ outcome' = Outcome("updateBand", call[1], call[2], "", FALSE)
            /\ Quiet
            /\ UNCHANGED <<heap, held, writes, filters, preampGain, dryGain, wetGain,
                           listeners>>
       ELSE UpdateBandCommit(withUpdatedBand(heap, ThisState, call[1], call[2]),
                             call[1], call[2], retain)
  /\ UNCHANGED callVars

UpdateBand == UpdateBandCall(BOOLEAN)

\* lines 149-164 of updateBands, h being the heap after line 161
UpdateBandsCommit(h, updates) ==
  /\ EmitStateChange(h, FALSE)
  /\ filters' = updatePeqFilters(filters, bandRecords(h, ThisState))
  /\ UNCHANGED <<preampGain, dryGain, wetGain, listeners>>
  /\ Emitting(andThen(emit(listeners, "bandchange"), emit(listeners, "statechange")),
              payloadsOf("bandchange", [bands |-> bandRecords(h, ThisState)], h),
              h, Ended("updateBands", updates, ""))

UpdateBands ==
  /\ \E updates \in UpdatesPool :
       IF ~updates.isArray
       THEN /\ outcome' = Ended("updateBands", updates, "TypeError")
            /\ Quiet
            /\ UNCHANGED <<heap, held, writes, filters, preampGain, dryGain, wetGain,
                           listeners>>
       ELSE UpdateBandsCommit(withUpdatedBands(heap, ThisState, updates.items), updates)
  /\ UNCHANGED callVars

\* setPreamp(preampDb = 0), v being the value after the default
SetPreampCommit(v) ==
  /\ EmitStateChange([heap EXCEPT !.objects[ThisState].preamp = v], FALSE)
  /\ preampGain' = updatePreamp(v)
  /\ UNCHANGED <<filters, dryGain, wetGain, listeners>>
  /\ Emitting(andThen(emit(listeners, "preampchange"), emit(listeners, "statechange")),
              payloadsOf("preampchange", v,
                         [heap EXCEPT !.objects[ThisState].preamp = v]),
              [heap EXCEPT !.objects[ThisState].preamp = v],
              Ended("setPreamp", v, ""))

SetPreamp ==
  /\ \E preampDb \in PreampPool :
       IF preampDb.k = "null"
       THEN /\ outcome' = Ended("setPreamp", preampDb, "TypeError")
            /\ Quiet
            /\ UNCHANGED <<heap, held, writes, filters, preampGain, dryGain, wetGain,
                           listeners>>
       ELSE SetPreampCommit(IF preampDb.k = "undef" THEN Zero ELSE preampDb)
  /\ UNCHANGED callVars

\* setBypass(enabled) and _applyBypass
SetBypass ==
  /\ \E enabled \in BOOLEAN :
       /\ EmitStateChange([heap EXCEPT !.objects[ThisState].bypass = enabled], FALSE)
       /\ dryGain' = dryGainFor(enabled)
       /\ wetGain' = wetGainFor(enabled)
       /\ UNCHANGED <<filters, preampGain, listeners>>
       /\ Emitting(andThen(emit(listeners, "bypasschange"),
                           emit(listeners, "statechange")),
                   payloadsOf("bypasschange", enabled,
                              [heap EXCEPT !.objects[ThisState].bypass = enabled]),
                   [heap EXCEPT !.objects[ThisState].bypass = enabled],
                   Ended("setBypass", enabled, ""))
  /\ UNCHANGED callVars

\* lines 196-206 of loadPreset, h being the heap after line 202
LoadPresetCommit(h, preset) ==
  /\ EmitStateChange(h, FALSE)
  /\ filters' = updatePeqFilters(filters, bandRecords(h, ThisState))
  /\ preampGain' = updatePreamp(h.objects[ThisState].preamp)
  /\ UNCHANGED <<dryGain, wetGain, listeners>>
  /\ Emitting(andThen(emit(listeners, "presetload"), emit(listeners, "statechange")),
              payloadsOf("presetload", statePayload(h), h),
              h, Ended("loadPreset", preset, ""))

\* loadPreset(preset): normalizePreset throws before anything is written
LoadPreset ==
  /\ \E preset \in LoadedPresets :
       IF normalizePreset(preset).threw
       THEN /\ outcome' = Ended("loadPreset", preset, normalizePreset(preset).error)
            /\ Quiet
            /\ UNCHANGED <<heap, held, writes, filters, preampGain, dryGain, wetGain,
                           listeners>>
       ELSE LoadPresetCommit(loadedState(heap, ThisState, normalizePreset(preset).preset),
                             preset)
  /\ UNCHANGED callVars

\* lines 223-241 of setState, h being the heap after line 240
SetStateCommit(h, state) ==
  /\ EmitStateChange(h, FALSE)
  /\ filters' = IF state.hasBands
                THEN updatePeqFilters(filters, bandRecords(h, ThisState))
                ELSE filters
  /\ preampGain' = IF IsNumberType(state.preamp) THEN updatePreamp(state.preamp)
                   ELSE preampGain
  /\ dryGain' = IF state.bypass = "none" THEN dryGain
                ELSE dryGainFor(h.objects[ThisState].bypass)
  /\ wetGain' = IF state.bypass = "none" THEN wetGain
                ELSE wetGainFor(h.objects[ThisState].bypass)
  /\ UNCHANGED listeners
  /\ Emitting(emit(listeners, "statechange"),
              payloadsOf("statechange", statePayload(h), h),
              h, Ended("setState", state, ""))

SetState ==
  /\ \E state \in StateArguments :
       IF ~state.object
       THEN /\ outcome' = Ended("setState", state, "TypeError")
            /\ Quiet
            /\ UNCHANGED <<heap, held, writes, filters, preampGain, dryGain, wetGain,
                           listeners>>
       ELSE SetStateCommit(withState(heap, ThisState, state), state)
  /\ UNCHANGED callVars

\* on(event, handler)
On ==
  /\ \E event \in ListenedEvents \cup {""}, handler \in Handlers \cup {NotAFunction} :
       /\ listeners' = on(listeners, event, handler)
       /\ outcome' = Ended("on", <<event, handler>>, "")
  /\ Quiet
  /\ UNCHANGED <<heap, held, writes, filters, preampGain, dryGain, wetGain>>
  /\ UNCHANGED callVars

\* off(event, handler), or a call of the function on(event, handler) returned
Off ==
  /\ \E event \in ListenedEvents, handler \in Handlers :
       /\ listeners' = off(listeners, event, handler)
       /\ outcome' = Ended("off", <<event, handler>>, "")
  /\ Quiet
  /\ UNCHANGED <<heap, held, writes, filters, preampGain, dryGain, wetGain>>
  /\ UNCHANGED callVars

\* the caller calls getState() and keeps what it returns
GetState ==
  /\ Settle(getState(heap, ThisState), Len(heap.objects) + 1)
  /\ writes' = 0
  /\ Quiet
  /\ outcome' = Outcome("getState", 0, NoChanges, "", TRUE)
  /\ UNCHANGED <<filters, preampGain, dryGain, wetGain, listeners>>
  /\ UNCHANGED callVars

\* the caller writes to the object it holds: held.preamp = 24
WriteHeldObject ==
  /\ held # 0
  /\ writes < MaxWrites
  /\ Settle([heap EXCEPT !.objects[held].preamp = FromInt(24)], held)
  /\ writes' = writes + 1
  /\ Quiet
  /\ outcome' = Outcome("write", 0, NoChanges, "", FALSE)
  /\ UNCHANGED <<filters, preampGain, dryGain, wetGain, listeners>>
  /\ UNCHANGED callVars

\* the caller writes to the bands array of the object it holds:
\* held.bands.length = 1
WriteHeldArray ==
  /\ held # 0
  /\ writes < MaxWrites
  /\ Len(bandsOf(heap, held)) > 1
  /\ Settle([heap EXCEPT !.arrays[heap.objects[held].bands] = SubSeq(@, 1, 1)], held)
  /\ writes' = writes + 1
  /\ Quiet
  /\ outcome' = Outcome("write", 0, NoChanges, "", FALSE)
  /\ UNCHANGED <<filters, preampGain, dryGain, wetGain, listeners>>
  /\ UNCHANGED callVars

\* the caller writes to a band record of the object it holds:
\* held.bands[0].gain = 24
WriteHeldBand ==
  /\ held # 0
  /\ writes < MaxWrites
  /\ Len(bandsOf(heap, held)) > 0
  /\ Settle([heap EXCEPT !.cells[bandsOf(heap, held)[1]].gain = FromInt(24)], held)
  /\ writes' = writes + 1
  /\ Quiet
  /\ outcome' = Outcome("write", 0, NoChanges, "", FALSE)
  /\ UNCHANGED <<filters, preampGain, dryGain, wetGain, listeners>>
  /\ UNCHANGED callVars

ProcessorNext ==
  \/ UpdateBand
  \/ SetPreamp
  \/ SetBypass
  \/ GetState
  \/ WriteHeldObject
  \/ WriteHeldArray
  \/ WriteHeldBand

ProcessorSpec == Init /\ [][ProcessorNext]_vars

\* ------------------------------------------------------------------------
\* The life of a PEQProcessor: construction, then any of its operations that
\* change it
\* ------------------------------------------------------------------------

\* new PEQProcessor(audioContext, { bypass }): lines 57-80
Constructed ==
  \E bypass \in BOOLEAN :
    /\ heap = [InitialHeap EXCEPT !.objects[ThisState].bypass = bypass]
    /\ dryGain = dryGainFor(bypass)
    /\ wetGain = wetGainFor(bypass)

LifecycleInit ==
  /\ pc = "idle"
  /\ op = "none"
  /\ args = NoArgs
  /\ ret = Returned(Zero, <<>>, <<>>)
  /\ Constructed
  /\ held = 0
  /\ writes = 0
  /\ filters = InitialFilters
  /\ preampGain = updatePreamp(Zero)
  /\ emitted = <<>>
  /\ outcome = Outcome("constructor", 0, NoChanges, "", FALSE)
  /\ listeners = NoListeners
  /\ delivered = <<>>
  /\ observed = <<>>

\* updateBand with no listener that keeps a payload
UpdateBandUnheld == UpdateBandCall({FALSE})

LifecycleNext ==
  \/ UpdateBandUnheld
  \/ UpdateBands
  \/ SetPreamp
  \/ SetBypass
  \/ LoadPreset
  \/ SetState

LifecycleSpec == LifecycleInit /\ [][LifecycleNext]_vars

\* a processor with listeners coming and going
ListenerNext ==
  \/ On
  \/ Off
  \/ UpdateBandUnheld
  \/ SetBypass

ListenerSpec == Init /\ [][ListenerNext]_vars


\* ------------------------------------------------------------------------
\* Properties
\* ------------------------------------------------------------------------

AggregateOps == {"calculateFrequencyResponse", "calculateProcessorResponse"}

\* x is no positive finite number
Invalid(x) == x.k # "num" \/ x.m = 0 \/ x.s < 0

\* the sample rate the call in progress resolves to
ResolvedRate ==
  IF args.sampleRate.k # "undef" THEN args.sampleRate
  ELSE IF args.band.sampleRate.k # "undef" THEN args.band.sampleRate
  ELSE FromInt(48000)

\* the arguments of the call in progress pass the three validity guards
ValidPoint ==
  /\ args.band.present
  /\ ~Invalid(args.band.frequency)
  /\ ~Invalid(args.frequency)
  /\ ~Invalid(ResolvedRate)

\* the type the band of the call in progress is taken to have
TypeOf(band) == IF band.type = "" THEN "peaking" ELSE band.type

GainTypes == {"peaking", "lowshelf", "highshelf"}
Recognised == GainTypes \cup {"lowpass", "highpass"}

\* |x - target| <= |target| * 2^(2 - F32Bits): equal as far as a
\* Float32Array element tells
Within(x, target) ==
  /\ x.k = "num"
  /\ target.k = "num"
  /\ FLe(FAbs(FSub(x, target)), FMul(FAbs(target), Pack(1, 1, 2 - F32Bits, FALSE)))

\* fs[i] < fs[i+1] for every i
Ascending(fs) == \A i \in 1..(Len(fs) - 1) : FLt(fs[i], fs[i + 1])

\* the span of the call in progress, with the defaults for what is absent
SpanMin == IF args.minFreq.k = "undef" THEN FromInt(20) ELSE args.minFreq
SpanMax == IF args.maxFreq.k = "undef" THEN FromInt(20000) ELSE args.maxFreq

\* C1: every value of magnitudeDb that calculateFrequencyResponse,
\* calculateProcessorResponse or getResponseAtFrequencies returns is a finite
\* number between MIN_GAIN_DB and MAX_GAIN_DB, whatever the bands and options.
C1_MagnitudeWithinClamp ==
  (op \in AggregateOps \cup {"getResponseAtFrequencies"}) =>
    \A i \in DOMAIN ret.magnitudeDb :
      /\ ret.magnitudeDb[i].k = "num"
      /\ FGe(ret.magnitudeDb[i], FromInt(0 - 48))
      /\ FLe(ret.magnitudeDb[i], FromInt(48))

\* a curve of calculateFrequencyResponse with a value at the upper limit, from
\* a band whose gain is beyond it
C1_ClampedUp ==
  /\ op = "calculateFrequencyResponse"
  /\ \E i \in DOMAIN ret.magnitudeDb : ret.magnitudeDb[i] = FromInt(48)
  /\ \E k \in DOMAIN args.bands : FGt(args.bands[k].gain, FromInt(48))

\* C2: calculateBandResponse returns exactly 0 and does not throw when
\* band.frequency, the evaluation frequency or the resolved sample rate is
\* non-finite or <= 0, whatever the band's type, gain and Q.
C2_InvalidInputGivesZero ==
  (op = "calculateBandResponse" /\ args.band.present /\ ~ValidPoint) =>
    (~ret.threw /\ ret.value = Zero)

\* a band that would respond with a gain of 6 dB, called with an invalid
\* sample rate
C2_InvalidRateReached ==
  /\ op = "calculateBandResponse"
  /\ args.band.present
  /\ ~Invalid(args.band.frequency)
  /\ ~Invalid(args.frequency)
  /\ args.band.gain = FromInt(6)
  /\ TypeOf(args.band) = "lowshelf"
  /\ args.sampleRate.k = "num"
  /\ Invalid(ResolvedRate)
  /\ ret.value = Zero

\* C3: calculateBandResponse never returns NaN or an infinity and never
\* throws; when normalizeCoefficients finds a0 zero or non-finite (null
\* coefficients) it returns 0.
C3_ResponseAlwaysFinite ==
  (op = "calculateBandResponse") =>
    /\ ~ret.threw
    /\ ret.value.k = "num"
    /\ (ValidPoint /\ TypeOf(args.band) \in Recognised
          /\ ~bandCoefficients(args.band, ResolvedRate).ok)
         => ret.value = Zero

\* a lowpass band past every guard whose a0 = 1 + alpha is 0
C3_NullCoefficientsReached ==
  /\ op = "calculateBandResponse"
  /\ ValidPoint
  /\ TypeOf(args.band) = "lowpass"
  /\ args.band.gain = FromInt(6)
  /\ ~bandCoefficients(args.band, ResolvedRate).ok
  /\ ret.value = Zero

\* C4: a peaking, lowshelf or highshelf band whose |gain| is below 1e-3 gets
\* exactly 0 from calculateBandResponse, at every frequency, Q and sample rate.
C4_SmallGainIsNoOp ==
  (/\ op = "calculateBandResponse"
   /\ args.band.present
   /\ TypeOf(args.band) \in GainTypes
   /\ args.band.gain.k = "num"
   /\ FLt(FAbs(args.band.gain), FromRatio(1, 1000)))
    => ret.value = Zero

\* a shelf band of small nonzero gain, evaluated at a valid point
C4_SmallGainReached ==
  /\ op = "calculateBandResponse"
  /\ ValidPoint
  /\ TypeOf(args.band) \in {"lowshelf", "highshelf"}
  /\ args.band.gain.k = "num"
  /\ args.band.gain.m # 0
  /\ FLt(FAbs(args.band.gain), FromRatio(1, 1000))
  /\ ret.value = Zero

\* the bands of a list that have a recognised type
RECURSIVE RecognisedOnly(_)
RecognisedOnly(bands) ==
  IF bands = <<>> THEN <<>>
  ELSE IF Head(bands).present /\ TypeOf(Head(bands)) \notin Recognised
       THEN RecognisedOnly(Tail(bands))
       ELSE <<Head(bands)>> \o RecognisedOnly(Tail(bands))

\* C5: a band of an unrecognised type (such as 'notch') gets exactly 0 from
\* calculateBandResponse without an error, and the aggregate functions return
\* what they return for the same bands without it.
C5_UnknownTypeContributesNothing ==
  /\ (op = "calculateBandResponse" /\ args.band.present
        /\ TypeOf(args.band) \notin Recognised)
       => (~ret.threw /\ ret.value = Zero)
  /\ (op = "calculateFrequencyResponse" /\ ~ret.threw)
       => ret.magnitudeDb =
            calculateFrequencyResponse(RecognisedOnly(args.bands),
              [numPoints |-> args.numPoints, minFreq |-> args.minFreq,
               maxFreq |-> args.maxFreq, sampleRate |-> args.sampleRate]).magnitudeDb
  /\ (op = "getResponseAtFrequencies")
       => ret.magnitudeDb =
            getResponseAtFrequencies(RecognisedOnly(args.bands), args.targetFrequencies,
              [sampleRate |-> args.sampleRate]).magnitudeDb

\* a notch band next to a peaking band whose response shows in the sum
C5_NotchBesidePeakReached ==
  /\ op = "getResponseAtFrequencies"
  /\ \E k \in DOMAIN args.bands : args.bands[k].type = "notch"
  /\ \E i \in DOMAIN ret.magnitudeDb : ret.magnitudeDb[i] # Zero

\* ten bands, every gain 0
TenFlatBands(bands) ==
  /\ Len(bands) = 10
  /\ \A k \in 1..10 : bands[k].present /\ bands[k].gain = Zero

\* every value of the curve is 0 within 1e-6
CurveIsZero == \A i \in DOMAIN ret.magnitudeDb :
  ret.magnitudeDb[i].k = "num" /\ FLe(FAbs(ret.magnitudeDb[i]), FromRatio(1, 1000000))

\* C6 as claimed: ten bands whose gains are all zero give a curve of zeros
\* for any numPoints.
C6_Original_ZeroGainsGiveZeroCurve ==
  (op \in AggregateOps /\ ~ret.threw /\ TenFlatBands(args.bands)) => CurveIsZero

\* C6 as amended: ten bands whose gains are all zero, none of them a lowpass
\* or highpass band, give a curve of zeros for any numPoints.
C6_ZeroGainsWithoutPassBandsGiveZeroCurve ==
  (/\ op \in AggregateOps
   /\ ~ret.threw
   /\ TenFlatBands(args.bands)
   /\ \A k \in 1..10 : TypeOf(args.bands[k]) \notin {"lowpass", "highpass"})
    => CurveIsZero

\* the flat preset through calculateProcessorResponse, at the most points
C6_FlatCurveReached ==
  /\ op = "calculateProcessorResponse"
  /\ TenFlatBands(args.bands)
  /\ \A k \in 1..10 : TypeOf(args.bands[k]) \in GainTypes
  /\ Len(ret.magnitudeDb) = MaxPoints
  /\ CurveIsZero

C8_SinglePointIsMinFreq ==
  /\ (op = "generateFrequencies" /\ args.numPoints = 1)
       => (~ret.threw /\ ret.frequencies = <<FromInt(20)>>)
  /\ (op = "calculateFrequencyResponse" /\ args.numPoints = 1 /\ ~Invalid(SpanMin))
       => (~ret.threw /\ Len(ret.frequencies) = 1 /\ Within(ret.frequencies[1], SpanMin))

\* C9: generateFrequencies and calculateFrequencyResponse fail with an error
\* when numPoints is zero or negative.
C9_NonPositivePointsRejected ==
  (op \in {"generateFrequencies", "calculateFrequencyResponse"} /\ args.numPoints <= 0)
    => ret.threw

\* the least ratio of neighbouring grid points that the model's Float32Array
\* element is sure to tell apart, as a difference of logarithms
ResolvedStep == Log10(FAdd(One, Pack(1, 1, 4 - F32Bits, FALSE)))

\* 0 < minFreq < maxFreq, with neighbouring grid points at least ResolvedStep apart
ResolvedSpan(minFreq, maxFreq, numPoints) ==
  /\ ~Invalid(minFreq)
  /\ ~Invalid(maxFreq)
  /\ FLt(minFreq, maxFreq)
  /\ FGe(FSub(Log10(maxFreq), Log10(minFreq)), FMul(FromInt(numPoints - 1), ResolvedStep))

CallOptions ==
  [numPoints |-> args.numPoints, minFreq |-> args.minFreq, maxFreq |-> args.maxFreq,
   sampleRate |-> args.sampleRate]

\* C11: calculateProcessorResponse throws an error when peqState is absent or
\* has no bands field, and otherwise returns exactly what
\* calculateFrequencyResponse returns for peqState.bands and the same options.
C11_ProcessorResponseDelegates ==
  (op = "calculateProcessorResponse") =>
    IF ~args.peqState.present \/ ~args.peqState.hasBands
    THEN ret.threw /\ ret.error = "Error"
    ELSE ret = calculateFrequencyResponse(args.peqState.bands, CallOptions)

\* a state with bands, called with a span and a sample rate of the caller's
C11_DelegatedWithOptions ==
  /\ op = "calculateProcessorResponse"
  /\ args.peqState.present
  /\ args.peqState.hasBands
  /\ args.minFreq = FromInt(100)
  /\ args.sampleRate = FromInt(24000)
  /\ Len(ret.magnitudeDb) = MaxPoints
  /\ Within(ret.frequencies[1], FromInt(100))
  /\ \E i \in DOMAIN ret.magnitudeDb : ret.magnitudeDb[i] # Zero

RECURSIVE PresentOnly(_)
PresentOnly(bands) ==
  IF bands = <<>> THEN <<>>
  ELSE IF Head(bands).present THEN <<Head(bands)>> \o PresentOnly(Tail(bands))
  ELSE PresentOnly(Tail(bands))

\* the sum, in order, of the responses at f of bands that are all present
RECURSIVE ResponseSum(_, _, _)
ResponseSum(bands, f, sampleRate) ==
  IF bands = <<>> THEN Zero
  ELSE FAdd(calculateBandResponse(f, bands[Len(bands)], [sampleRate |-> sampleRate]),
            ResponseSum(SubSeq(bands, 1, Len(bands) - 1), f, sampleRate))

\* x brought into -48..48
Limited(x) ==
  IF FGt(x, FromInt(48)) THEN FromInt(48)
  ELSE IF FLt(x, FromInt(0 - 48)) THEN FromInt(0 - 48)
  ELSE x

\* the sample rate an aggregate call in progress evaluates at
AggregateRate == IF args.sampleRate.k = "undef" THEN FromInt(48000) ELSE args.sampleRate

\* C13: null entries of the bands list are skipped: calculateFrequencyResponse
\* and getResponseAtFrequencies return what they return for the list without
\* them, and each value is the clamp of the sum of the responses of the
\* remaining bands.
C13_NullBandsSkipped ==
  /\ (op = "calculateFrequencyResponse" /\ ~ret.threw)
       => /\ ret = calculateFrequencyResponse(PresentOnly(args.bands), CallOptions)
          /\ \A i \in DOMAIN ret.magnitudeDb :
               ret.magnitudeDb[i] =
                 Limited(ResponseSum(PresentOnly(args.bands), ret.frequencies[i],
                                     AggregateRate))
  /\ (op = "getResponseAtFrequencies")
       => /\ ret = getResponseAtFrequencies(PresentOnly(args.bands),
                     args.targetFrequencies, [sampleRate |-> args.sampleRate])
          /\ \A i \in DOMAIN ret.magnitudeDb :
               ret.magnitudeDb[i] =
                 Limited(ResponseSum(PresentOnly(args.bands), args.targetFrequencies[i],
                                     AggregateRate))

\* a list that starts with a null entry, and the band after it shows
C13_NullFirstReached ==
  /\ op = "calculateFrequencyResponse"
  /\ Len(args.bands) >= 2
  /\ ~args.bands[1].present
  /\ args.bands[2].present
  /\ \E i \in DOMAIN ret.magnitudeDb : ret.magnitudeDb[i] # Zero

\* the frequency just below Nyquist that the call in progress clamps to
JustBelowNyquist == FMul(FDiv(ResolvedRate, Two), NYQUIST_FACTOR)

\* C14: calculateBandResponse at a frequency at or above sampleRate / 2
\* returns what it returns at sampleRate / 2 * 0.999999, and the angular
\* frequency it evaluates at is always strictly below pi.
C14_ClampedBelowNyquist ==
  (op = "calculateBandResponse" /\ ValidPoint) =>
    /\ FGe(args.frequency, FDiv(ResolvedRate, Two))
         => ret.value = calculateBandResponse(JustBelowNyquist, args.band,
                                              [sampleRate |-> args.sampleRate])
    /\ FLt(angularFrequency(targetFrequency(args.frequency, ResolvedRate), ResolvedRate),
           PI)

\* a shelf evaluated above Nyquist, where its response is not 0
C14_AboveNyquistReached ==
  /\ op = "calculateBandResponse"
  /\ ValidPoint
  /\ FGt(args.frequency, FDiv(ResolvedRate, Two))
  /\ TypeOf(args.band) = "highshelf"
  /\ args.band.gain = FromInt(6)
  /\ ret.value # Zero

\* the sum, in order, of the responses at f of bands that are all present,
\* each at the sample rate calculateBandResponse resolves without an option
RECURSIVE OwnRateSum(_, _)
OwnRateSum(bands, f) ==
  IF bands = <<>> THEN Zero
  ELSE FAdd(calculateBandResponse(f, bands[Len(bands)], [sampleRate |-> Undefined]),
            OwnRateSum(SubSeq(bands, 1, Len(bands) - 1), f))

\* C15: when the caller passes no sampleRate option, calculateBandResponse,
\* calculateFrequencyResponse and getResponseAtFrequencies evaluate a band
\* that carries its own sampleRate at that rate, not at 48000.
C15_BandSampleRateRespected ==
  /\ (op = "calculateBandResponse" /\ args.band.present
        /\ args.sampleRate.k = "undef" /\ args.band.sampleRate.k = "num")
       => ret.value = calculateBandResponse(args.frequency,
                        [args.band EXCEPT !.sampleRate = Undefined],
                        [sampleRate |-> args.band.sampleRate])
  /\ (op = "calculateFrequencyResponse" /\ ~ret.threw /\ args.sampleRate.k = "undef")
       => \A i \in DOMAIN ret.magnitudeDb :
            ret.magnitudeDb[i] =
              Limited(OwnRateSum(PresentOnly(args.bands), ret.frequencies[i]))
  /\ (op = "getResponseAtFrequencies" /\ args.sampleRate.k = "undef")
       => \A i \in DOMAIN ret.magnitudeDb :
            ret.magnitudeDb[i] =
              Limited(OwnRateSum(PresentOnly(args.bands), args.targetFrequencies[i]))

\* C15, the part that holds: calculateBandResponse alone uses the band's rate
C15_BandResponseUsesBandRate ==
  (op = "calculateBandResponse" /\ args.band.present
     /\ args.sampleRate.k = "undef" /\ args.band.sampleRate.k = "num")
    => ret.value = calculateBandResponse(args.frequency,
                     [args.band EXCEPT !.sampleRate = Undefined],
                     [sampleRate |-> args.band.sampleRate])

\* the gains a band record can carry: zero, below the epsilon, ordinary,
\* beyond the clamp, not finite, missing
AnyGains == SmallGains \cup OrdinaryGains \cup ExtremeGains \cup {NaN, PosInf, NegInf, Undefined}

PassTypes == {"lowpass", "highpass"}

\* C16: for a lowpass or highpass band the gain is ignored: the result of
\* calculateBandResponse is the result for the same frequency, options and
\* band with any other gain in the gain's place.
C16_PassBandsIgnoreGain ==
  (op = "calculateBandResponse" /\ args.band.present /\ args.band.type \in PassTypes)
    => \A g \in AnyGains :
         ret.value = calculateBandResponse(args.frequency,
                       [args.band EXCEPT !.gain = g],
                       [sampleRate |-> args.sampleRate])

\* a lowpass band of gain 0 has attenuated a frequency above its corner
C16_ZeroGainLowpassReached ==
  /\ op = "calculateBandResponse"
  /\ ValidPoint
  /\ args.band.type = "lowpass"
  /\ args.band.gain = Zero
  /\ FLt(ret.value, Zero)

\* the call in progress evaluates a peaking band of Q > 0 and finite gain
\* other than 0 at its own centre frequency, below the Nyquist clamp
AtOwnCentre ==
  /\ op = "calculateBandResponse"
  /\ ValidPoint
  /\ TypeOf(args.band) = "peaking"
  /\ args.frequency = args.band.frequency
  /\ FLt(args.frequency, JustBelowNyquist)
  /\ ~Invalid(args.band.Q)
  /\ args.band.gain.k = "num"
  /\ args.band.gain.m # 0

\* |x - target| <= |target| * 2^(9 - MantBits): equal up to the rounding error
\* the evaluation of a biquad at its centre accumulates
NearGain(x, target) ==
  /\ x.k = "num"
  /\ FLe(FAbs(FSub(x, target)), FMul(FAbs(target), Pack(1, 1, 9 - MantBits, FALSE)))

\* the gains whose A = 10^(gain/40) is a number that is neither 0 nor Infinity
\* and leaves alpha * A and alpha / A well inside the number range
ModerateGain(gain) == FLe(FAbs(gain), FromInt(60))

\* the Q values of an ordinary equaliser band
ModerateQ(q) == FGe(q, Half) /\ FLe(q, One)

StateValue(h, obj) ==
  [fields |-> [h.objects[obj] EXCEPT !.bands = 0], bands |-> bandRecords(h, obj)]

BandKeys == {"type", "frequency", "gain", "Q", "S", "sampleRate", "index"}

\* after is before with the own keys of changes written over it
MergedInto(before, after, changes) ==
  \A key \in BandKeys :
    after[key] = IF key \in changes.keys THEN changes.values[key] ELSE before[key]

\* the step of updateBand(index, changes) from bands before to bands after
UpdateBandStep(index, changes, error, before, after) ==
  IF 0 <= index /\ index < Len(before)
  THEN /\ error = ""
       /\ Len(after) = Len(before)
       /\ \A i \in DOMAIN before : i # index + 1 => after[i] = before[i]
       /\ IF changes.object
          THEN /\ MergedInto(before[index + 1], after[index + 1], changes)
               /\ emitted' = <<"bandchange", "statechange">>
          ELSE /\ after[index + 1] = before[index + 1]
               /\ filters' = filters
               /\ emitted' = <<>>
       /\ StateValue(heap', ThisState).fields = StateValue(heap, ThisState).fields
       /\ UNCHANGED <<preampGain, dryGain, wetGain>>
  ELSE /\ error = "RangeError"
       /\ StateValue(heap', ThisState) = StateValue(heap, ThisState)
       /\ emitted' = <<>>
       /\ UNCHANGED <<filters, preampGain, dryGain, wetGain>>

\* C19: updateBand(index, changes) with 0 <= index < bands.length merges the
\* changes into that one band and leaves every other band, preamp, bypass,
\* name and description as they were; with any other index it throws
\* RangeError, leaves the state and every filter node as they were and emits
\* no event.
C19_UpdateBandFrame ==
  [][outcome'.op = "updateBand"
       => UpdateBandStep(outcome'.index, outcome'.changes, outcome'.error,
                         bandRecords(heap, ThisState), bandRecords(heap', ThisState))]_vars

\* the last band has taken { frequency: 3200, gain: -2 } after the first took
\* { gain: 3 }, and its filter node has followed
C19_LastBandMerged ==
  /\ outcome.op = "updateBand"
  /\ outcome.index = Len(FlatBands) - 1
  /\ outcome.error = ""
  /\ bandRecords(heap, ThisState)[Len(FlatBands)] =
       [FlatBands[Len(FlatBands)] EXCEPT !.frequency = FromInt(3200),
                                         !.gain = FromInt(0 - 2)]
  /\ bandRecords(heap, ThisState)[1] = [FlatBands[1] EXCEPT !.gain = FromInt(3)]
  /\ filters[Len(FlatBands)].frequency = Fround(FromInt(3200))
  /\ filters[1].gain = Fround(FromInt(3))

ProcessorOps == {"updateBand", "setPreamp", "setBypass"}

\* C20: what getState returns, and what a statechange listener is handed, is
\* a snapshot: a write to it, to its bands array or to one of its band records
\* leaves what the processor says, hence what a later getState returns, as it
\* was; an operation of the processor leaves the snapshot the caller holds as
\* it was; and a snapshot says what the processor says when it is taken.
C20_SnapshotIsolated ==
  [][/\ outcome'.op = "write"
          => StateValue(heap', ThisState) = StateValue(heap, ThisState)
     /\ (outcome'.op \in ProcessorOps /\ held # 0 /\ ~outcome'.retained)
          => /\ held' # 0
             /\ StateValue(heap', held') = StateValue(heap, held)
     /\ outcome'.op = "getState"
          => StateValue(heap', ThisState) = StateValue(heap, ThisState)
     /\ (outcome'.op = "getState" \/ outcome'.retained)
          => /\ held' # 0
             /\ StateValue(heap', held') = StateValue(heap', ThisState)]_vars

\* the caller has written to a band record of the snapshot it holds, and the
\* processor has since updated a band
C20_WrittenSnapshotHeld ==
  /\ held # 0
  /\ writes > 0
  /\ outcome.op = "updateBand"
  /\ outcome.error = ""
  /\ ~outcome.retained
  /\ bandRecords(heap, held)[1].gain = FromInt(24)
  /\ bandRecords(heap, ThisState)[1].gain = FromInt(3)
  /\ Len(bandRecords(heap, held)) = Len(FlatBands)

\* the largest of the positive gains of the bands, 0 when none is positive
LargestPositiveGain(bands) ==
  IF \A i \in DOMAIN bands : ~FGt(bands[i].gain, Zero) THEN Zero
  ELSE bands[CHOOSE i \in DOMAIN bands :
               /\ FGt(bands[i].gain, Zero)
               /\ \A j \in DOMAIN bands :
                    FGt(bands[j].gain, Zero) => FGe(bands[i].gain, bands[j].gain)].gain

\* C22: normalizePreset keeps a preamp that is neither undefined nor null, 0
\* and negative values included; a preamp that is undefined or null becomes
\* minus the largest positive band gain (0 when no gain is positive), so that
\* preamp + gain <= 0 for every band.
C22_ExplicitPreampKept ==
  (op = "normalizePreset" /\ ~ret.threw) =>
     IF args.preset.preamp.k \notin {"undef", "null"}
     THEN ret.preset.preamp = args.preset.preamp
     ELSE /\ ret.preset.preamp = FNeg(LargestPositiveGain(ret.preset.bands))
          /\ \A i \in DOMAIN ret.preset.bands :
               ret.preset.bands[i].gain.k = "num"
                 => FLe(FAdd(ret.preset.preamp, ret.preset.bands[i].gain), Zero)

\* a preset with a preamp of 0 and a band of gain 6 has been normalized
C22_ZeroPreampKept ==
  /\ op = "normalizePreset"
  /\ ~ret.threw
  /\ args.preset.preamp = Zero
  /\ args.preset.bands = BassBoostBands
  /\ ret.preset.preamp = Zero

\* x is a number that is not below lo and not above hi (NaN is neither)
NotOutside(x, lo, hi) ==
  x.k \in {"num", "inf", "nan"} /\ ~FLt(x, FromInt(lo)) /\ ~FGt(x, FromInt(hi))

\* the preset passes validatePreset
ValidPreset(preset) ==
  /\ preset.object
  /\ preset.name \notin {"", " "}
  /\ preset.isArray
  /\ Len(preset.bands) > 0
  /\ \A i \in DOMAIN preset.bands :
       /\ preset.bands[i].present
       /\ NotOutside(preset.bands[i].frequency, 20, 20000)
       /\ NotOutside(preset.bands[i].gain, 0 - 24, 24)
       /\ NotOutside(preset.bands[i].Q, 0, 10)
       /\ ~IsZero(preset.bands[i].Q)
       /\ preset.bands[i].type \in {"peaking", "lowshelf", "highshelf", "notch"}

\* the bands of the preset, then those of BAND_LAYOUT past them
Padded(bands) ==
  IF Len(bands) >= Len(FlatBands) THEN bands
  ELSE bands \o SubSeq(FlatBands, Len(bands) + 1, Len(FlatBands))

\* the preamp normalizePreset gives the preset
PresetPreamp(preset) ==
  IF preset.preamp.k \in {"undef", "null"}
  THEN FNeg(LargestPositiveGain(Padded(preset.bands)))
  ELSE preset.preamp

\* the step of loadPreset(preset) that ended with error
LoadPresetStep(preset, error) ==
  IF ValidPreset(preset)
  THEN /\ error = ""
       /\ bandRecords(heap', ThisState) = Padded(preset.bands)
       /\ heap'.objects[ThisState].name = preset.name
       /\ heap'.objects[ThisState].description = preset.description
       /\ heap'.objects[ThisState].preamp = PresetPreamp(preset)
       /\ heap'.objects[ThisState].bypass = heap.objects[ThisState].bypass
  ELSE /\ error # ""
       /\ StateValue(heap', ThisState) = StateValue(heap, ThisState)
       /\ UNCHANGED <<filters, preampGain, dryGain, wetGain>>
       /\ emitted' = <<>>
       /\ delivered' = <<>>

\* C21: after loadPreset(preset) with a preset that passes validation the
\* bands of the state are those of normalizePreset(preset) and no other (the
\* preset's, padded from BAND_LAYOUT), name, description and preamp are those
\* of the normalized preset and bypass is as before; with a preset that fails
\* validation the call throws, the state, the filter nodes and the preamp
\* node are as before and no event is emitted.
C21_LoadPresetReplaces ==
  [][outcome'.op = "loadPreset"
       => LoadPresetStep(outcome'.argument, outcome'.error)]_vars

\* a bypassed processor whose first band was updated has loaded the two bands
\* of the README's AutoEQ text, without preamp
C21_ImportedLoadedWhileBypassed ==
  /\ outcome.op = "loadPreset"
  /\ outcome.error = ""
  /\ outcome.argument.bands = ImportedBands
  /\ heap.objects[ThisState].bypass
  /\ heap.objects[ThisState].preamp = FNeg(FromRatio(29, 10))
  /\ Len(bandRecords(heap, ThisState)) = Len(FlatBands)
  /\ bandRecords(heap, ThisState)[1] = ImportedBands[1]
  /\ bandRecords(heap, ThisState)[3] = FlatBands[3]

\* C23: after construction and after every sequence of setBypass, setState,
\* loadPreset, updateBand, updateBands and setPreamp calls exactly one of
\* the two paths is open: the dry one when state.bypass is true, the wet one
\* when it is false.
C23_OnePathOpen ==
  IF heap.objects[ThisState].bypass
  THEN dryGain = 1 /\ wetGain = 0
  ELSE dryGain = 0 /\ wetGain = 1

\* a processor bypassed by setState has since loaded a preset
C23_BypassedThroughLoad ==
  /\ outcome.op = "loadPreset"
  /\ outcome.error = ""
  /\ heap.objects[ThisState].name = "Bass Boost"
  /\ heap.objects[ThisState].bypass
  /\ dryGain = 1
  /\ wetGain = 0

\* what the AudioParam of a node holds after x was assigned to it
Held(x) == Fround(x)

\* C24: after construction and after every sequence of updateBand,
\* updateBands, loadPreset and setState calls that returned, the state has as
\* many bands as there are filter nodes and filter node i has the frequency,
\* gain, Q (as an AudioParam holds them) and type of state.bands[i].
C24_FiltersFollowState ==
  /\ Len(bandRecords(heap, ThisState)) = Len(filters)
  /\ \A i \in DOMAIN filters :
       i \in DOMAIN bandRecords(heap, ThisState) =>
         /\ filters[i].frequency = Held(bandRecords(heap, ThisState)[i].frequency)
         /\ filters[i].gain = Held(bandRecords(heap, ThisState)[i].gain)
         /\ filters[i].Q = Held(bandRecords(heap, ThisState)[i].Q)
         /\ filters[i].type = bandRecords(heap, ThisState)[i].type

\* the event of its own each operation emits before statechange
OwnEvent ==
  [updateBand |-> "bandchange", updateBands |-> "bandchange",
   setPreamp |-> "preampchange", setBypass |-> "bypasschange",
   loadPreset |-> "presetload"]

\* the nodes as they are
NodesNow ==
  [filters |-> filters, preampGain |-> preampGain, dryGain |-> dryGain,
   wetGain |-> wetGain]

\* every emission of the last operation came after the state and the nodes
\* were updated, and the statechange payload is the state
EmittedAfterUpdate ==
  \A i \in DOMAIN observed :
    /\ observed[i].state = StateValue(heap, ThisState)
    /\ observed[i].nodes = NodesNow
    /\ observed[i].event = "statechange"
         => observed[i].payload = StateValue(heap, ThisState)

Count(items, x) == Cardinality({i \in DOMAIN items : items[i] = x})

\* every handler other than h of event e, and every handler of another event,
\* is registered after the step as before, in the same order
OthersKept(e, h) ==
  \A event \in EVENTS :
    IF event = e
    THEN SelectSeq(listeners'[event], LAMBDA x : x # h)
           = SelectSeq(listeners[event], LAMBDA x : x # h)
    ELSE listeners'[event] = listeners[event]

\* the step of on(event, handler)
OnStep(event, handler) ==
  IF event # "" /\ handler \in Handlers
  THEN Count(listeners'[event], handler) = 1 /\ OthersKept(event, handler)
  ELSE listeners' = listeners

\* the step of off(event, handler)
OffStep(event, handler) ==
  Count(listeners'[event], handler) = 0 /\ OthersKept(event, handler)

\* the step of an operation that emits: each handler registered for an event
\* is called once per emission of it and no other handler is called, the
\* caller sees no exception of a handler, and statechange is the last emission
EmitStep ==
  /\ listeners' = listeners
  /\ \A event \in EVENTS, h \in Handlers :
       Count(delivered', [event |-> event, handler |-> h])
         = Count(emitted', event) * Count(listeners[event], h)
  /\ Len(delivered') = Len(listeners[emitted'[1]]) + Len(listeners[emitted'[2]])
  /\ outcome'.error = ""
  /\ emitted'[Len(emitted')] = "statechange"

\* C26: a handler registered with on is called once per emission of its
\* event until off (or the function on returned) removes it and never after;
\* when a handler throws, the operation still returns normally, the other
\* handlers of the event and the statechange emission still run and the
\* state change is kept.
C26_HandlersCalledAndIsolated ==
  [][/\ outcome'.op = "on" => OnStep(outcome'.argument[1], outcome'.argument[2])
     /\ outcome'.op = "off" => OffStep(outcome'.argument[1], outcome'.argument[2])
     /\ (outcome'.op = "setBypass"
           \/ (outcome'.op = "updateBand" /\ outcome'.error = ""
                 /\ outcome'.changes.object))
          => EmitStep
     /\ outcome'.op = "setBypass"
          => heap'.objects[ThisState].bypass = outcome'.argument
     /\ (outcome'.op = "updateBand" /\ outcome'.error = "" /\ outcome'.changes.object)
          => MergedInto(bandRecords(heap, ThisState)[outcome'.index + 1],
                        bandRecords(heap', ThisState)[outcome'.index + 1],
                        outcome'.changes)]_vars

\* updateBand(0, { gain: 3 }) has called the throwing handler of bandchange,
\* then the other one, then the handler of statechange, and kept the gain
C26_ThrowingHandlerPassed ==
  /\ outcome.op = "updateBand"
  /\ outcome.error = ""
  /\ listeners["bandchange"] = <<2, 1>>
  /\ listeners["statechange"] = <<1>>
  /\ delivered = <<[event |-> "bandchange", handler |-> 2],
                   [event |-> "bandchange", handler |-> 1],
                   [event |-> "statechange", handler |-> 1]>>
  /\ bandRecords(heap, ThisState)[1].gain = FromInt(3)

\* |a - b| <= tolerance
Near(a, b, tolerance) == FLe(FAbs(FSub(a, b)), tolerance)

\* the bands the text has a line for
WrittenBands(bands) ==
  SelectSeq(bands, LAMBDA band : FGt(FAbs(band.gain), FromRatio(1, 100)))

\* band came back as written: its type, and its numbers as far as the
\* digits of the text go (whole hertz, a tenth of a dB, a hundredth of Q)
CameBack(written, band) ==
  /\ band.type = written.type
  /\ Near(band.frequency, written.frequency, Half)
  /\ Near(band.gain, written.gain, FromRatio(51, 1000))
  /\ Near(band.Q, written.Q, FromRatio(51, 10000))

\* the preamp the preset is exported with
ExportedPreamp(preset) == IF preset.preamp.k = "num" THEN preset.preamp ELSE Zero

\* the preset returned is the one exported, as far as the text holds it
RoundTripped(exported, imported) ==
  /\ Near(imported.preamp, ExportedPreamp(exported), FromRatio(1, 10))
  /\ Len(imported.bands) = 10
  /\ \A i \in DOMAIN WrittenBands(exported.bands) :
       /\ i <= Len(imported.bands)
       /\ CameBack(WrittenBands(exported.bands)[i], imported.bands[i])

\* C27: for every preset validatePreset accepts, importing its AutoEQ text
\* export does not throw and returns the same preamp to 0.1 dB and, first,
\* the bands of |gain| > 0.01 in their order with the same type, frequency,
\* gain and Q up to the rounding of the text, padded to exactly 10 bands.
C27_TextRoundTrip ==
  (pc = "done" /\ op = "exportThenImport" /\ ValidPreset(args.preset))
    => (~ret.threw /\ RoundTripped(args.preset, ret.preset))

====
